---- MODULE Spec2Model ----
(***************************************************************************)
(* TToolbox command framework: the cooldown tracker (utils/cooldown),      *)
(* Command.execute / safeExecute / validate, safeReply, the CommandManager *)
(* registry, SubcommandGroup.execute, the ModalManager and the             *)
(* PaginatedEmbed session.                                                 *)
(*                                                                         *)
(* Time is counted in whole ticks; one tick stands for one minute, so the  *)
(* three-minute reply window of safeReply is 3 ticks and the cooldown      *)
(* durations below are small multiples of a tick.                          *)
(***************************************************************************)
EXTENDS Integers, Sequences, FiniteSets, TLC

VARIABLES now, tracker, lastCall, lastGrant, tasks, commands, managerLogger, cmdLogger,
          calls, groupLogger, groupCall, modals, lastGet, submits, invoked, page, clicks,
          utilCalls

cooldownVars == <<now, tracker, lastCall, lastGrant>>

commandVars == <<tasks, commands, managerLogger, cmdLogger>>

groupVars == <<groupLogger, groupCall>>

modalVars == <<modals, lastGet, submits, invoked>>

pageVars == <<page, clicks>>

vars == <<cooldownVars, commandVars, calls, groupVars, modalVars, pageVars, utilCalls>>

----------------------------------------------------------------------------
(* Bounds *)

MaxTime == 5

----------------------------------------------------------------------------
(* Values *)

Users == {"U1", "U2"}

\* An optional number (number | undefined) is the empty set or a singleton.
Undefined == {}

Some(n) == {n}

ValueOf(opt) == CHOOSE n \in opt : TRUE

\* JavaScript truthiness of number | undefined: undefined and 0 are falsy.
Truthy(opt) == opt # Undefined /\ opt # Some(0)

\* Command names used with checkCooldown and the cooldown each is declared with.
Names == {"slow", "slower", "ping", "zero"}

CooldownOfName ==
  [n \in Names |->
     CASE n = "slow" -> Some(2)
       [] n = "slower" -> Some(3)
       [] n = "ping" -> Undefined
       [] n = "zero" -> Some(0)]

EmptyMap == [x \in {} |-> 0]

\* Command instances. c1 and c2 carry the same name, so one can replace the other
\* in a registry; c2 is guild-only; c3 is `ping`, without cooldown.
Cmds == {"c1", "c2", "c3"}

CmdName == [c \in Cmds |-> IF c = "c3" THEN "ping" ELSE "slow"]

CmdCooldown == [c \in Cmds |-> CooldownOfName[CmdName[c]]]

CmdGuildOnly == [c \in Cmds |-> c = "c2"]

\* Concurrently delivered invocations, one per task.
Tasks == {"t1", "t2"}

Loggers == {"L1", "L2"}

NoLogger == "none"

NoCmd == "none"

\* src/utils/editAndReply safeReply: `3 * 60 * 1000` ms, in ticks of one minute.
ThreeMinutes == 3

\* The texts execute can reply with.
GuildOnlyMessage == "This command can only be used in a server."

CooldownMessage == "You need to wait ... before using this command again."

CustomMessage == "additionalValidation message"

GenericFailure == "An unexpected error occurred."

NoError == "null"

----------------------------------------------------------------------------
(* utils/cooldown: checkCooldown *)

\* Map.get on the tracker: the user map of a command, or none.
TrackerHas(tr, name) == name \in DOMAIN tr

\* tracker.set(commandName, map)
TrackerSet(tr, name, m) ==
  [n \in (DOMAIN tr) \cup {name} |-> IF n = name THEN m ELSE tr[n]]

\* Mutant: the entry is keyed by the command alone, so every user gets the expiry.
MapSet_AllUsers(m, user, expiry) == [u \in Users |-> expiry]

\* cooldownMap.set(userId, expiry)
MapSet(m, user, expiry) ==
  [u \in (DOMAIN m) \cup {user} |-> IF u = user THEN expiry ELSE m[u]]

\* Mutant: only an absent cooldown returns early (`=== undefined`), 0 is tracked.
HasCooldown_UndefinedOnly(cd) == cd # Undefined

\* `if (!commandCooldown) return 0`
HasCooldown(cd) == Truthy(cd)

\* Mutant: an entry that expires at this very moment is kept.
IsExpired_Strict(expiry, t) == expiry < t

\* The clean-up loop deletes an entry when `expiry <= now`.
IsExpired(expiry, t) == expiry <= t

SweepExpired(m, t) ==
  [u \in {v \in DOMAIN m : ~IsExpired(m[v], t)} |-> m[u]]

\* Mutant: the comparison of the live-entry test is reversed.
IsBlocked_Reversed(m, user, t) ==
  /\ user \in DOMAIN m
  /\ m[user] # 0
  /\ t > m[user]

\* `canBeUsedAgainAt && now < canBeUsedAgainAt`
IsBlocked(m, user, t) ==
  /\ user \in DOMAIN m
  /\ m[user] # 0
  /\ t < m[user]

\* Mutant: the expiry is written without the duration.
NewExpiry_NoDuration(t, d) == t

\* `now + commandCooldown`
NewExpiry(t, d) == t + d

\* Mutant: a denied call restarts the window.
DeniedMap_Restart(m, user, t, d) == MapSet(m, user, t + d)

\* What a denied call does to the swept map: nothing.
DeniedMap(m, user, t, d) == m

\* The whole function: the tracker it leaves behind and the number it returns.
CheckCooldown(tr, t, name, cd, user) ==
  IF ~HasCooldown(cd)
  THEN [tracker |-> tr, result |-> 0]
  ELSE LET m0 == IF TrackerHas(tr, name) THEN tr[name] ELSE EmptyMap
           m1 == SweepExpired(m0, t)
       IN IF IsBlocked(m1, user, t)
          THEN [tracker |-> TrackerSet(tr, name, DeniedMap(m1, user, t, ValueOf(cd))),
                result |-> m1[user] - t]
          ELSE [tracker |-> TrackerSet(tr, name, MapSet(m1, user, NewExpiry(t, ValueOf(cd)))),
                result |-> 0]

\* The stored expiry of (name, user), or none.
Entry(tr, name, user) ==
  IF TrackerHas(tr, name) /\ user \in DOMAIN tr[name] THEN Some(tr[name][user]) ELSE Undefined

----------------------------------------------------------------------------
(* Command.validate *)

\* Mutant: the cooldown is checked before the guild scope.
Validate_CooldownFirst(c, user, inGuild, addMsg, tr, t) ==
  LET r == CheckCooldown(tr, t, CmdName[c], CmdCooldown[c], user)
  IN IF r.result > 0
     THEN [msg |-> CooldownMessage, tracker |-> r.tracker,
           cd |-> Some(r.result), hook |-> FALSE]
     ELSE IF CmdGuildOnly[c] /\ ~inGuild
          THEN [msg |-> GuildOnlyMessage, tracker |-> r.tracker, cd |-> Undefined,
                hook |-> FALSE]
          ELSE [msg |-> addMsg, tracker |-> r.tracker, cd |-> Some(0), hook |-> TRUE]

\* What validate returns and does: the message (or null), the tracker it leaves,
\* the number checkCooldown returned (none when it was not called) and whether
\* additionalValidation was called. addMsg is what the hook would return.
Validate(c, user, inGuild, addMsg, tr, t) ==
  IF CmdGuildOnly[c] /\ ~inGuild
  THEN [msg |-> GuildOnlyMessage, tracker |-> tr, cd |-> Undefined, hook |-> FALSE]
  ELSE LET r == CheckCooldown(tr, t, CmdName[c], CmdCooldown[c], user)
       IN IF r.result > 0
          THEN [msg |-> CooldownMessage, tracker |-> r.tracker,
                cd |-> Some(r.result), hook |-> FALSE]
          ELSE [msg |-> addMsg, tracker |-> r.tracker, cd |-> Some(0), hook |-> TRUE]

----------------------------------------------------------------------------
(* One invocation: the interaction, the position in execute, and what it did *)

IdleTask ==
  [pc |-> "idle", cmd |-> NoCmd, user |-> "", created |-> 0, replied |-> FALSE,
   name |-> "", found |-> NoCmd, hadLogger |-> FALSE,
   vmsg |-> "", cd |-> Undefined, hook |-> FALSE, at |-> 0,
   ran |-> 0, threw |-> FALSE, logs |-> <<>>, replies |-> <<>>,
   result |-> "none", err |-> "none"]

\* A call of safeReply: its text, its ephemeral flag, the primitive it used and
\* how it ended (expired | pending | sent | failed | unfetched).
Attempt(text, eph, via, status) ==
  [text |-> text, ephemeral |-> eph, via |-> via, status |-> status]

\* `now - interaction.createdTimestamp > threeMinutes`
InteractionExpired(k, t) == t - k.created > ThreeMinutes

\* `!interaction.replied && !interaction.deferred` picks reply, else followUp.
Primitive(k) == IF k.replied THEN "followUp" ELSE "reply"

\* safeReply up to its first await: it throws `expired` before touching the
\* platform, or it calls the primitive and waits for it.
SafeReply(k, text, eph, t) ==
  IF InteractionExpired(k, t)
  THEN [k EXCEPT !.replies = Append(@, Attempt(text, eph, "none", "expired"))]
  ELSE [k EXCEPT !.replies = Append(@, Attempt(text, eph, Primitive(k), "pending"))]

\* The record of the success branch of safeExecute.
InfoRecord(l) ==
  [logger |-> l, level |-> "info", mirror |-> FALSE, text |-> "command executed"]

\* Mutant: the catch branch logs without console mirroring.
ErrorRecord_NoMirror(l) ==
  [logger |-> l, level |-> "error", mirror |-> FALSE, text |-> "An Error occurred: ..."]

\* The record of the catch branch of safeExecute.
ErrorRecord(l) ==
  [logger |-> l, level |-> "error", mirror |-> TRUE, text |-> "An Error occurred: ..."]

\* `this.logger?.log(...)`: nothing happens without a logger. ILogger.log
\* returns void; the record is appended and the call returns.
LogTo(k, l, rec) ==
  IF l = NoLogger THEN k ELSE [k EXCEPT !.logs = Append(@, rec)]

\* Mutant: the success branch returns without logging.
FnResolved_NoLog(k, l) == [k EXCEPT !.pc = "done", !.result = "resolved"]

\* safeExecute after `await fn()` resolved: the informational record, then return.
FnResolved(k, l) ==
  [LogTo(k, l, InfoRecord(l)) EXCEPT !.pc = "done", !.result = "resolved"]

\* The catch block of safeExecute: the error record, then safeReply with the
\* fixed text; an expired interaction makes safeReply throw out of the catch.
Catch(k, l, t) ==
  LET k1 == LogTo(k, l, ErrorRecord(l))
      k2 == SafeReply(k1, GenericFailure, FALSE, t)
  IN IF InteractionExpired(k1, t)
     THEN [k2 EXCEPT !.pc = "done", !.result = "rejected", !.err = "expired"]
     ELSE [k2 EXCEPT !.pc = "ereply"]

\* execute -> safeExecute -> fn, up to the first await: validate, then either the
\* private reply with the validation message or the start of run.
StartExecute(k, c, v, l, t) ==
  LET k1 == [k EXCEPT !.pc = "run", !.cmd = c, !.vmsg = v.msg, !.cd = v.cd,
                      !.hook = v.hook, !.at = t]
  IN IF v.msg # NoError
     THEN IF InteractionExpired(k1, t)
          THEN Catch(SafeReply(k1, v.msg, TRUE, t), l, t)
          ELSE [SafeReply(k1, v.msg, TRUE, t) EXCEPT !.pc = "vreply"]
     ELSE [k1 EXCEPT !.ran = @ + 1]

\* The last safeReply attempt ends with the given status.
Settle(k, status) ==
  [k EXCEPT !.replies[Len(k.replies)].status = status,
            !.replied = @ \/ status \in {"sent", "unfetched"}]

----------------------------------------------------------------------------
(* Values of the registry history, SubcommandGroup, ModalManager and
   PaginatedEmbed *)

\* The longest history of manager calls that is followed.
MaxCalls == 4

\* One call made on the CommandManager, as the caller wrote it.
ManagerCall(op, cmds, name, logger) ==
  [op |-> op, cmds |-> cmds, name |-> name, logger |-> logger]

\* A subcommand group `admin` with the children `ban` (c1), `mute` (c2, which
\* is guild-only) and `info` (c3); `kick` can be selected but is no key of the map.
GroupName == "admin"

\* The SubcommandGroup instance as an entry of the manager's registry.
GroupEntry == "g1"

Subcommands ==
  [n \in {"ban", "mute", "info"} |->
     CASE n = "ban" -> "c1"
       [] n = "mute" -> "c2"
       [] n = "info" -> "c3"]

Selectable == {"ban", "mute", "info", "kick"}

IdleGroupCall ==
  [pc |-> "idle", sel |-> "", result |-> "none", err |-> "none", pre |-> EmptyMap,
   validations |-> 0, checks |-> 0]

\* Modal ids are strings, kept as sequences of characters so that split(':')
\* has something to cut.
MaxIdLen == 3

Chars == {"e", "1", ":"}

RECURSIVE IdsOfLen(_)
IdsOfLen(n) ==
  IF n = 0 THEN {<<>>} ELSE {Append(s, c) : s \in IdsOfLen(n - 1), c \in Chars}

Ids == UNION {IdsOfLen(n) : n \in 0..MaxIdLen}

\* Modal definitions (objects): m1 and m3 carry the id `e`, m2 the id `e:1`,
\* which has `e` as the part before its first colon. m1 is ephemeral.
ModalDefs == {"m1", "m2", "m3"}

ModalId == [m \in ModalDefs |-> IF m = "m2" THEN <<"e", ":", "1">> ELSE <<"e">>]

ModalEphemeral == [m \in ModalDefs |-> m = "m1"]

NoModal == "undefined"

NoGet == [called |-> FALSE, id |-> <<>>, result |-> NoModal, reg |-> EmptyMap]

IdleSubmit ==
  [pc |-> "idle", id |-> <<>>, modal |-> NoModal, result |-> "none", err |-> "none"]

\* onSubmit invocations are counted per registration up to this many.
MaxInvoked == 2

\* Item lists: the leading and the trailing parts of 1..MaxItems, the empty
\* list among them.
MaxItems == 3

\* The number of direct calls of the utilities in one history.
MaxReads == 2

AllItems == [i \in 1..MaxItems |-> i]

ItemLists ==
  {SubSeq(AllItems, 1, n) : n \in 0..MaxItems}
    \cup {SubSeq(AllItems, MaxItems - n + 1, MaxItems) : n \in 0..MaxItems}

PageActions == {"prev", "next", "delete", "refresh"}

\* The session: where it stands (none, built, starting, active, ended, failed),
\* its fields, whether stop() has been called, and the end handler's editReply
\* (none, pending, done, failed) with the number of times it was attempted.
NoPage ==
  [phase |-> "none", owner |-> "", index |-> 0, items |-> <<>>, handler |-> FALSE,
   stopped |-> FALSE, clear |-> "none", clears |-> 0]

NoReply == [text |-> "", ephemeral |-> FALSE]

\* One collected click: who clicked what, where its handler stands, the reply it
\* sent and the index its pagination switch started from.
IdleClick ==
  [pc |-> "idle", user |-> "", action |-> "", reply |-> NoReply, from |-> Undefined]

NotYourButton == [text |-> "You cannot use this button.", ephemeral |-> TRUE]

\* What onCustomButton resolves with: handled, newItems? and stopCollector?.
\* An absent stopCollector is falsy like false.
HandlerResults ==
  [handled : BOOLEAN,
   newItems : {Undefined} \cup {Some(l) : l \in ItemLists},
   stopCollector : BOOLEAN]

----------------------------------------------------------------------------
(* State *)

NoCall ==
  [name |-> "", cd |-> Undefined, user |-> "", time |-> 0, result |-> 0,
   pre |-> EmptyMap, preGrant |-> Undefined]

NoGrants == [k \in Names \X Users |-> Undefined]

Init ==
  /\ now = 0
  /\ tracker = EmptyMap
  /\ lastCall = NoCall
  /\ lastGrant = NoGrants
  /\ tasks = [t \in Tasks |-> IdleTask]
  /\ commands = EmptyMap
  /\ managerLogger = NoLogger
  /\ cmdLogger = [c \in Cmds |-> NoLogger]
  /\ calls = <<>>
  /\ groupLogger = NoLogger
  /\ groupCall = [t \in Tasks |-> IdleGroupCall]
  /\ modals = EmptyMap
  /\ lastGet = NoGet
  /\ submits = [t \in Tasks |-> IdleSubmit]
  /\ invoked = [m \in ModalDefs |-> 0]
  /\ page = NoPage
  /\ clicks = [t \in Tasks |-> IdleClick]
  /\ utilCalls = <<>>

\* Date.now() is read from a clock that never goes back.
Tick ==
  /\ now < MaxTime
  /\ now' = now + 1
  /\ UNCHANGED <<tracker, lastCall, lastGrant, tasks, commands, managerLogger, cmdLogger,
               calls, groupVars, modalVars, pageVars, utilCalls>>

\* A direct call checkCooldown(name, cooldown, user) at the current time.
\* lastCall keeps the call, what it returned and the tracker it found;
\* lastGrant keeps, per (name, user), the time of the latest call that returned 0
\* for a command with a cooldown.
CallCheckCooldown(name, user) ==
  LET cd == CooldownOfName[name]
      r == CheckCooldown(tracker, now, name, cd, user)
  IN /\ tracker' = r.tracker
     /\ lastCall' = [name |-> name, cd |-> cd, user |-> user, time |-> now,
                     result |-> r.result, pre |-> tracker,
                     preGrant |-> lastGrant[<<name, user>>]]
     /\ lastGrant' = IF HasCooldown(cd) /\ r.result = 0
                     THEN [lastGrant EXCEPT ![<<name, user>>] = Some(now)]
                     ELSE lastGrant
     /\ UNCHANGED <<now, tasks, commands, managerLogger, cmdLogger,
               calls, groupVars, modalVars, pageVars, utilCalls>>

NextCooldown ==
  \/ Tick
  \/ \E name \in Names, user \in Users : CallCheckCooldown(name, user)

SpecCooldown == Init /\ [][NextCooldown]_vars

----------------------------------------------------------------------------
(* Command.execute, one step per stretch between awaits *)

\* Command.setLogger
CommandSetLogger(c, l) ==
  /\ cmdLogger[c] # l
  /\ cmdLogger' = [cmdLogger EXCEPT ![c] = l]
  /\ UNCHANGED <<now, tracker, lastCall, lastGrant, tasks, commands, managerLogger,
               calls, groupVars, modalVars, pageVars, utilCalls>>

\* The interaction was created now, or long enough ago to be past the window.
CreatedChoices == {now} \cup {t \in {now - (ThreeMinutes + 1)} : t >= 0}

\* The invocation a task starts with: a fresh, unanswered interaction.
NewInteraction(user, created) == [IdleTask EXCEPT !.user = user, !.created = created]

\* Mutant: the cooldown entry is kept only when the whole validation passed.
Execute_ReserveOnPass(t, c, user, inGuild, created, addMsg) ==
  LET v == Validate(c, user, inGuild, addMsg, tracker, now)
      k == [NewInteraction(user, created) EXCEPT !.hadLogger = cmdLogger[c] # NoLogger]
  IN /\ tasks[t].pc = "idle"
     /\ tracker' = IF v.msg = NoError THEN v.tracker ELSE tracker
     /\ tasks' = [tasks EXCEPT ![t] = StartExecute(k, c, v, cmdLogger[c], now)]
     /\ UNCHANGED <<now, lastCall, lastGrant, commands, managerLogger, cmdLogger,
               calls, groupVars, modalVars, pageVars, utilCalls>>

\* command.execute(interaction, client) called directly on instance c.
Execute(t, c, user, inGuild, created, addMsg) ==
  LET v == Validate(c, user, inGuild, addMsg, tracker, now)
      k == [NewInteraction(user, created) EXCEPT !.hadLogger = cmdLogger[c] # NoLogger]
  IN /\ tasks[t].pc = "idle"
     /\ tracker' = v.tracker
     /\ tasks' = [tasks EXCEPT ![t] = StartExecute(k, c, v, cmdLogger[c], now)]
     /\ UNCHANGED <<now, lastCall, lastGrant, commands, managerLogger, cmdLogger,
               calls, groupVars, modalVars, pageVars, utilCalls>>

\* run resolves; the handler may have answered the interaction itself.
RunReturns(t, answered) ==
  /\ tasks[t].pc = "run"
  /\ tasks' = [tasks EXCEPT ![t] =
       FnResolved([@ EXCEPT !.replied = answered], cmdLogger[tasks[t].cmd])]
  /\ UNCHANGED <<now, tracker, lastCall, lastGrant, commands, managerLogger, cmdLogger,
               calls, groupVars, modalVars, pageVars, utilCalls>>

\* run rejects.
RunThrows(t, answered) ==
  /\ tasks[t].pc = "run"
  /\ tasks' = [tasks EXCEPT ![t] =
       Catch([@ EXCEPT !.replied = answered, !.threw = TRUE], cmdLogger[tasks[t].cmd], now)]
  /\ UNCHANGED <<now, tracker, lastCall, lastGrant, commands, managerLogger, cmdLogger,
               calls, groupVars, modalVars, pageVars, utilCalls>>

\* The reply primitive of the validation message settles: delivered and fetched,
\* rejected, or delivered with fetchReply rejecting.
ValidationReplySettles(t, status) ==
  /\ tasks[t].pc = "vreply"
  /\ status = "unfetched" => tasks[t].replies[Len(tasks[t].replies)].via = "reply"
  /\ tasks' = [tasks EXCEPT ![t] =
       IF status = "sent"
       THEN FnResolved(Settle(@, status), cmdLogger[tasks[t].cmd])
       ELSE Catch(Settle(@, status), cmdLogger[tasks[t].cmd], now)]
  /\ UNCHANGED <<now, tracker, lastCall, lastGrant, commands, managerLogger, cmdLogger,
               calls, groupVars, modalVars, pageVars, utilCalls>>

\* The reply primitive of the generic failure message settles; a rejection
\* leaves the catch block as an InteractionError `failed`.
FailureReplySettles(t, status) ==
  /\ tasks[t].pc = "ereply"
  /\ status = "unfetched" => tasks[t].replies[Len(tasks[t].replies)].via = "reply"
  /\ tasks' = [tasks EXCEPT ![t] =
       IF status = "sent"
       THEN [Settle(@, status) EXCEPT !.pc = "done", !.result = "resolved"]
       ELSE [Settle(@, status) EXCEPT !.pc = "done", !.result = "rejected", !.err = "failed"]]
  /\ UNCHANGED <<now, tracker, lastCall, lastGrant, commands, managerLogger, cmdLogger,
               calls, groupVars, modalVars, pageVars, utilCalls>>

Settled == {"sent", "failed", "unfetched"}

TaskStep(t) ==
  \/ \E answered \in BOOLEAN : RunReturns(t, answered)
  \/ \E answered \in BOOLEAN : RunThrows(t, answered)
  \/ \E status \in Settled : ValidationReplySettles(t, status)
  \/ \E status \in Settled : FailureReplySettles(t, status)

\* The caller drops a settled invocation; the slot takes the next one.
Finish(t) ==
  /\ tasks[t].pc = "done"
  /\ tasks' = [tasks EXCEPT ![t] = IdleTask]
  /\ UNCHANGED <<now, tracker, lastCall, lastGrant, commands, managerLogger, cmdLogger,
               calls, groupVars, modalVars, pageVars, utilCalls>>

\* A caller that awaits each execute before it starts the next one.
Sequential == {"t1"}

Next ==
  \/ Tick
  \/ \E c \in Cmds : CommandSetLogger(c, "L1")
  \/ \E t \in Sequential, c \in Cmds, user \in Users, inGuild \in BOOLEAN,
        created \in CreatedChoices, addMsg \in {NoError, CustomMessage} :
       Execute(t, c, user, inGuild, created, addMsg)
  \/ \E t \in Sequential : TaskStep(t)
  \/ \E t \in Sequential : Finish(t)

Spec == Init /\ [][Next]_vars

\* Invocations of the commands named `slow`, delivered concurrently: every task
\* runs on its own and the tasks interleave at their awaits.
NextRace ==
  \/ Tick
  \/ \E t \in Tasks, c \in {"c1", "c2"}, user \in Users, inGuild \in BOOLEAN :
       Execute(t, c, user, inGuild, now, NoError)
  \/ \E t \in Tasks : TaskStep(t)

SpecRace == Init /\ [][NextRace]_vars

----------------------------------------------------------------------------
(* CommandManager *)

\* Mutant: the lookup goes by the name of any known command, not by the registry.
ManagerGet_AnyNamed(reg, name) ==
  IF \E c \in Cmds : CmdName[c] = name
  THEN CHOOSE c \in Cmds : CmdName[c] = name
  ELSE NoCmd

\* get(name): the entry registered under name, or none.
ManagerGet(reg, name) == IF name \in DOMAIN reg THEN reg[name] ELSE NoCmd

\* commands.set(command.name, command)
RegistrySet(reg, c) ==
  [n \in (DOMAIN reg) \cup {CmdName[c]} |-> IF n = CmdName[c] THEN c ELSE reg[n]]

\* commands.delete(name)
RegistryDelete(reg, name) == [n \in (DOMAIN reg) \ {name} |-> reg[n]]

\* register(command): the manager's logger, if any, is attached first.
Register(c) ==
  /\ cmdLogger' = IF managerLogger # NoLogger
                  THEN [cmdLogger EXCEPT ![c] = managerLogger]
                  ELSE cmdLogger
  /\ commands' = RegistrySet(commands, c)
  /\ UNCHANGED <<now, tracker, lastCall, lastGrant, tasks, managerLogger,
               calls, groupVars, modalVars, pageVars, utilCalls>>

\* Mutant: unregistering a name also forgets the cooldowns kept under it.
Unregister_DropsCooldown(name) ==
  /\ commands' = RegistryDelete(commands, name)
  /\ tracker' = [n \in (DOMAIN tracker) \ {name} |-> tracker[n]]
  /\ UNCHANGED <<now, lastCall, lastGrant, tasks, managerLogger, cmdLogger,
               calls, groupVars, modalVars, pageVars, utilCalls>>

\* unregister(name)
Unregister(name) ==
  /\ commands' = RegistryDelete(commands, name)
  /\ UNCHANGED <<now, tracker, lastCall, lastGrant, tasks, managerLogger, cmdLogger,
               calls, groupVars, modalVars, pageVars, utilCalls>>

\* clear()
Clear ==
  /\ commands' = EmptyMap
  /\ UNCHANGED <<now, tracker, lastCall, lastGrant, tasks, managerLogger, cmdLogger,
               calls, groupVars, modalVars, pageVars, utilCalls>>

\* setLogger(logger): kept for later registrations and attached to every entry;
\* on a registered SubcommandGroup that is the group's own setLogger, which
\* sets the group's logger and leaves the children's loggers alone.
ManagerSetLogger(l) ==
  /\ managerLogger' = l
  /\ cmdLogger' = [c \in Cmds |->
                     IF \E n \in DOMAIN commands : commands[n] = c THEN l ELSE cmdLogger[c]]
  /\ groupLogger' = IF \E n \in DOMAIN commands : commands[n] = GroupEntry
                    THEN l ELSE groupLogger
  /\ UNCHANGED <<now, tracker, lastCall, lastGrant, tasks, commands,
               calls, groupCall, modalVars, pageVars, utilCalls>>

\* executeCommand(name, interaction, client): throws `Command not found` when get
\* returns nothing, else runs the entry's execute up to its first await. The task
\* keeps the name asked for and the registry entry as it stood at the call.
ExecuteCommand(t, name, user, inGuild, created, addMsg) ==
  LET c == ManagerGet(commands, name)
      k == [NewInteraction(user, created) EXCEPT
              !.name = name,
              !.found = IF name \in DOMAIN commands THEN commands[name] ELSE NoCmd]
  IN /\ tasks[t].pc = "idle"
     /\ IF c = NoCmd
        THEN /\ tasks' = [tasks EXCEPT ![t] =
                  [k EXCEPT !.pc = "done", !.result = "rejected", !.err = "notfound"]]
             /\ UNCHANGED tracker
        ELSE LET v == Validate(c, user, inGuild, addMsg, tracker, now)
             IN /\ tracker' = v.tracker
                /\ tasks' = [tasks EXCEPT ![t] =
                     StartExecute([k EXCEPT !.hadLogger = cmdLogger[c] # NoLogger],
                                  c, v, cmdLogger[c], now)]
     /\ UNCHANGED <<now, lastCall, lastGrant, commands, managerLogger, cmdLogger,
               calls, groupVars, modalVars, pageVars, utilCalls>>

\* Dispatch through the manager while the registry is being changed; the clock
\* stands still here, the timing of cooldowns and replies is covered by Spec.
NextManager ==
  \/ \E c \in Cmds : Register(c)
  \/ \E name \in {CmdName[c] : c \in Cmds} : Unregister(name)
  \/ Clear
  \/ ManagerSetLogger("L1")
  \/ \E t \in Sequential, name \in {CmdName[c] : c \in Cmds}, user \in Users,
        inGuild \in BOOLEAN, addMsg \in {NoError, CustomMessage} :
       ExecuteCommand(t, name, user, inGuild, now, addMsg)
  \/ \E t \in Sequential : TaskStep(t)
  \/ \E t \in Sequential : Finish(t)

SpecManager == Init /\ [][NextManager]_vars

----------------------------------------------------------------------------
(* CommandManager, registry calls with their history *)

\* The fields of one CommandManager together with the loggers of the commands.
Manager == [commands |-> commands, logger |-> managerLogger, cmdLogger |-> cmdLogger]

\* register(command) on the manager m.
RegisterOne(m, c) ==
  [m EXCEPT !.cmdLogger = IF m.logger # NoLogger THEN [@ EXCEPT ![c] = m.logger] ELSE @,
            !.commands = RegistrySet(@, c)]

\* Mutant: the array is walked from its end.
RECURSIVE RegisterAll_Reversed(_, _)
RegisterAll_Reversed(m, cs) ==
  IF cs = <<>> THEN m
  ELSE RegisterOne(RegisterAll_Reversed(m, Tail(cs)), Head(cs))

\* registerMultiple(commands): forEach, in array order.
RECURSIVE RegisterAll(_, _)
RegisterAll(m, cs) ==
  IF cs = <<>> THEN m
  ELSE RegisterAll(RegisterOne(m, Head(cs)), Tail(cs))

\* Mutant: the logger is kept for later registrations only.
AttachToAll_KeptOnly(m, l) == [m EXCEPT !.logger = l]

\* setLogger(logger) on the manager m: kept, and set on every stored entry.
AttachToAll(m, l) ==
  [m EXCEPT !.logger = l,
            !.cmdLogger = [c \in Cmds |->
               IF \E n \in DOMAIN m.commands : m.commands[n] = c THEN l ELSE @[c]]]

\* has(name)
ManagerHas(reg, name) == name \in DOMAIN reg

\* size
ManagerSize(reg) == Cardinality(DOMAIN reg)

\* getAll(), with the key each entry is stored under.
ManagerEntries(reg) == {<<n, reg[n]>> : n \in DOMAIN reg}

\* The manager becomes m and the call is added to the history.
Called(m, call) ==
  /\ Len(calls) < MaxCalls
  /\ commands' = m.commands
  /\ managerLogger' = m.logger
  /\ cmdLogger' = m.cmdLogger
  /\ calls' = Append(calls, call)
  /\ UNCHANGED <<cooldownVars, tasks, groupVars, modalVars, pageVars, utilCalls>>

CallRegister(c) ==
  Called(RegisterOne(Manager, c), ManagerCall("register", <<c>>, "", NoLogger))

CallRegisterMultiple(cs) ==
  Called(RegisterAll(Manager, cs), ManagerCall("registerMultiple", cs, "", NoLogger))

CallUnregister(name) ==
  Called([Manager EXCEPT !.commands = RegistryDelete(@, name)],
         ManagerCall("unregister", <<>>, name, NoLogger))

CallClear ==
  Called([Manager EXCEPT !.commands = EmptyMap], ManagerCall("clear", <<>>, "", NoLogger))

CallSetLogger(l) ==
  Called(AttachToAll(Manager, l), ManagerCall("setLogger", <<>>, "", l))

\* The arrays handed to registerMultiple: two different commands in either order.
Batches == {<<c, d>> : c, d \in Cmds} \ {<<c, c>> : c \in Cmds}

NextRegistry ==
  \/ \E c \in Cmds : CallRegister(c)
  \/ \E cs \in Batches : CallRegisterMultiple(cs)
  \/ \E name \in {CmdName[c] : c \in Cmds} : CallUnregister(name)
  \/ CallClear
  \/ \E l \in Loggers : CallSetLogger(l)

SpecRegistry == Init /\ [][NextRegistry]_vars

----------------------------------------------------------------------------
(* SubcommandGroup.execute *)

\* Mutant: a name that is no key falls back to some child.
GroupLookup_Fallback(subs, sel) ==
  IF sel \in DOMAIN subs THEN subs[sel] ELSE subs[CHOOSE n \in DOMAIN subs : TRUE]

\* `this.subcommands.get(subcommandName)`
GroupLookup(subs, sel) == IF sel \in DOMAIN subs THEN subs[sel] ELSE NoCmd

\* The record of the success branch of the group's safeExecute.
GroupInfoRecord(l) ==
  [logger |-> l, level |-> "info", mirror |-> FALSE, text |-> "admin (sub) command executed"]

\* The record of its catch branch.
GroupErrorRecord(l) ==
  [logger |-> l, level |-> "error", mirror |-> TRUE, text |-> "An Error occured..."]

\* SubcommandGroup.setLogger: the group's own logger, the children keep theirs.
GroupSetLogger(l) ==
  /\ groupLogger # l
  /\ groupLogger' = l
  /\ UNCHANGED <<cooldownVars, commandVars, calls, groupCall, modalVars, pageVars, utilCalls>>

\* Mutant: the group validates the child before it delegates to it.
GroupValidate_Rechecks(c, user, inGuild, tr, t) ==
  LET v == Validate(c, user, inGuild, NoError, tr, t)
  IN [tracker |-> v.tracker, validations |-> 1,
      checks |-> IF v.cd = Undefined THEN 0 ELSE 1]

\* What group.execute does between the lookup and the child's execute: it
\* builds the scope and validates nothing.
GroupValidate(c, user, inGuild, tr, t) ==
  [tracker |-> tr, validations |-> 0, checks |-> 0]

\* group.execute(interaction, client) up to its first await: the lookup, the
\* throw for a name that is no key, else the child's execute inside safeExecute.
\* The call keeps the tracker it found, the number of runs of validate and the
\* number of evaluations of checkCooldown.
GroupExecute(t, sel, user, inGuild, created, addMsg) ==
  LET c == GroupLookup(Subcommands, sel)
      g == [IdleGroupCall EXCEPT !.sel = sel, !.pre = tracker]
  IN /\ tasks[t].pc = "idle"
     /\ groupCall[t].pc = "idle"
     /\ IF c = NoCmd
        THEN /\ groupCall' = [groupCall EXCEPT ![t] =
                  [g EXCEPT !.pc = "done", !.result = "rejected", !.err = "unknown"]]
             /\ UNCHANGED <<tracker, tasks>>
        ELSE LET own == GroupValidate(c, user, inGuild, tracker, now)
                 v == Validate(c, user, inGuild, addMsg, own.tracker, now)
                 k == [NewInteraction(user, created) EXCEPT
                         !.hadLogger = cmdLogger[c] # NoLogger]
             IN /\ tracker' = v.tracker
                /\ tasks' = [tasks EXCEPT ![t] = StartExecute(k, c, v, cmdLogger[c], now)]
                /\ groupCall' = [groupCall EXCEPT ![t] =
                     [g EXCEPT !.pc = "child",
                               !.validations = own.validations + 1,
                               !.checks = own.checks + IF v.cd = Undefined THEN 0 ELSE 1]]
     /\ UNCHANGED <<now, lastCall, lastGrant, commands, managerLogger, cmdLogger,
                    calls, groupLogger, modalVars, pageVars, utilCalls>>

\* The child's execute settled: the group's safeExecute logs and returns, or
\* logs the error and calls safeReply with the fixed text.
GroupChildSettles(t) ==
  LET k == tasks[t]
      k1 == LogTo(k, groupLogger, GroupErrorRecord(groupLogger))
  IN /\ groupCall[t].pc = "child"
     /\ k.pc = "done"
     /\ IF k.result = "resolved"
        THEN /\ tasks' = [tasks EXCEPT ![t] =
                  LogTo(k, groupLogger, GroupInfoRecord(groupLogger))]
             /\ groupCall' = [groupCall EXCEPT ![t].pc = "done", ![t].result = "resolved"]
        ELSE /\ tasks' = [tasks EXCEPT ![t] = SafeReply(k1, GenericFailure, FALSE, now)]
             /\ groupCall' = [groupCall EXCEPT ![t] =
                  IF InteractionExpired(k1, now)
                  THEN [@ EXCEPT !.pc = "done", !.result = "rejected", !.err = "expired"]
                  ELSE [@ EXCEPT !.pc = "reply"]]
     /\ UNCHANGED <<cooldownVars, commands, managerLogger, cmdLogger,
                    calls, groupLogger, modalVars, pageVars, utilCalls>>

\* The reply primitive of the group's failure message settles.
GroupReplySettles(t, status) ==
  /\ groupCall[t].pc = "reply"
  /\ status = "unfetched" => tasks[t].replies[Len(tasks[t].replies)].via = "reply"
  /\ tasks' = [tasks EXCEPT ![t] = Settle(@, status)]
  /\ groupCall' = [groupCall EXCEPT ![t] =
       IF status = "sent"
       THEN [@ EXCEPT !.pc = "done", !.result = "resolved"]
       ELSE [@ EXCEPT !.pc = "done", !.result = "rejected", !.err = "failed"]]
  /\ UNCHANGED <<cooldownVars, commands, managerLogger, cmdLogger,
                 calls, groupLogger, modalVars, pageVars, utilCalls>>

\* The caller drops a settled group invocation.
GroupFinish(t) ==
  /\ groupCall[t].pc = "done"
  /\ groupCall' = [groupCall EXCEPT ![t] = IdleGroupCall]
  /\ tasks' = [tasks EXCEPT ![t] = IdleTask]
  /\ UNCHANGED <<cooldownVars, commands, managerLogger, cmdLogger,
                 calls, groupLogger, modalVars, pageVars, utilCalls>>

\* Invocations of the group, one after the other; the clock stands still.
NextGroup ==
  \/ GroupSetLogger("L1")
  \/ \E c \in Cmds : CommandSetLogger(c, "L1")
  \/ \E t \in Sequential, sel \in Selectable, user \in Users, inGuild \in BOOLEAN,
        addMsg \in {NoError, CustomMessage} :
       GroupExecute(t, sel, user, inGuild, now, addMsg)
  \/ \E t \in Sequential : TaskStep(t)
  \/ \E t \in Sequential : GroupChildSettles(t)
  \/ \E t \in Sequential, status \in Settled : GroupReplySettles(t, status)
  \/ \E t \in Sequential : GroupFinish(t)

SpecGroup == Init /\ [][NextGroup]_vars

\* manager.register(group): the manager's logger, if any, is set on the group
\* by the group's setLogger, and the group is stored under its name.
RegisterGroup ==
  /\ groupLogger' = IF managerLogger # NoLogger THEN managerLogger ELSE groupLogger
  /\ commands' = [n \in (DOMAIN commands) \cup {GroupName} |->
                    IF n = GroupName THEN GroupEntry ELSE commands[n]]
  /\ UNCHANGED <<cooldownVars, tasks, managerLogger, cmdLogger, calls, groupCall,
                 modalVars, pageVars, utilCalls>>

\* manager.executeCommand(group name, interaction, client) with the group
\* registered: get returns the group and its execute is awaited.
ExecuteGroupCommand(t, sel, user, inGuild, created, addMsg) ==
  /\ ManagerGet(commands, GroupName) = GroupEntry
  /\ GroupExecute(t, sel, user, inGuild, created, addMsg)

\* Invocations of a registered group through the manager, one after the other.
NextManagerGroup ==
  \/ RegisterGroup
  \/ ManagerSetLogger("L1")
  \/ \E t \in Sequential, sel \in Selectable, user \in Users, inGuild \in BOOLEAN,
        addMsg \in {NoError, CustomMessage} :
       ExecuteGroupCommand(t, sel, user, inGuild, now, addMsg)
  \/ \E t \in Sequential : TaskStep(t)
  \/ \E t \in Sequential : GroupChildSettles(t)
  \/ \E t \in Sequential, status \in Settled : GroupReplySettles(t, status)
  \/ \E t \in Sequential : GroupFinish(t)

SpecManagerGroup == Init /\ [][NextManagerGroup]_vars

----------------------------------------------------------------------------
(* ModalManager *)

\* `this.modals.set(data.id, data)`
ModalMapSet(reg, m) ==
  [i \in (DOMAIN reg) \cup {ModalId[m]} |-> IF i = ModalId[m] THEN m ELSE reg[i]]

\* `this.modals.delete(id)`
ModalMapDelete(reg, id) == [i \in (DOMAIN reg) \ {id} |-> reg[i]]

\* id.split(':'): the pieces between the colons, at least one piece.
RECURSIVE Split(_)
Split(id) ==
  IF \A i \in 1..Len(id) : id[i] # ":"
  THEN <<id>>
  ELSE LET i == CHOOSE j \in 1..Len(id) :
                  id[j] = ":" /\ \A h \in 1..(j - 1) : id[h] # ":"
       IN <<SubSeq(id, 1, i - 1)>> \o Split(SubSeq(id, i + 1, Len(id)))

\* `id.split(':')[0]`
BaseId(id) == Split(id)[1]

\* Mutant: the base id is tried before the id itself.
ModalGet_BaseFirst(reg, id) ==
  IF BaseId(id) \in DOMAIN reg THEN reg[BaseId(id)]
  ELSE IF id \in DOMAIN reg THEN reg[id]
  ELSE NoModal

\* get(id): the exact id first, then the base id.
ModalGet(reg, id) ==
  IF id \in DOMAIN reg THEN reg[id]
  ELSE IF BaseId(id) \in DOMAIN reg THEN reg[BaseId(id)]
  ELSE NoModal

\* One more invocation, counted up to MaxInvoked.
Counted(n) == IF n < MaxInvoked THEN n + 1 ELSE n

\* buildAndRegister(data); invoked counts the onSubmit calls of a definition
\* since it was last registered.
BuildAndRegister(m) ==
  /\ modals' = ModalMapSet(modals, m)
  /\ invoked' = [invoked EXCEPT ![m] = 0]
  /\ UNCHANGED <<cooldownVars, commandVars, calls, groupVars, lastGet, submits, pageVars, utilCalls>>

\* remove(id)
ModalRemove(id) ==
  /\ modals' = ModalMapDelete(modals, id)
  /\ UNCHANGED <<cooldownVars, commandVars, calls, groupVars, lastGet, submits, invoked,
                 pageVars, utilCalls>>

\* clear()
ModalClear ==
  /\ modals' = EmptyMap
  /\ UNCHANGED <<cooldownVars, commandVars, calls, groupVars, lastGet, submits, invoked,
                 pageVars, utilCalls>>

\* A direct call get(id); lastGet keeps the id, the registry and the answer.
CallGet(id) ==
  /\ lastGet' = [called |-> TRUE, id |-> id, result |-> ModalGet(modals, id), reg |-> modals]
  /\ UNCHANGED <<cooldownVars, commandVars, calls, groupVars, modals, submits, invoked,
                 pageVars, utilCalls>>

\* handleSubmit(interaction) up to its await: the lookup by customId, the throw
\* `Modal not found`, else the call of onSubmit.
HandleSubmit(t, id) ==
  LET m == ModalGet(modals, id)
  IN /\ submits[t].pc = "idle"
     /\ IF m = NoModal
        THEN /\ submits' = [submits EXCEPT ![t] =
                  [IdleSubmit EXCEPT !.pc = "done", !.id = id,
                                     !.result = "rejected", !.err = "notfound"]]
             /\ UNCHANGED invoked
        ELSE /\ submits' = [submits EXCEPT ![t] =
                  [IdleSubmit EXCEPT !.pc = "handler", !.id = id, !.modal = m]]
             /\ invoked' = [invoked EXCEPT ![m] = Counted(@)]
     /\ UNCHANGED <<cooldownVars, commandVars, calls, groupVars, modals, lastGet, pageVars, utilCalls>>

\* onSubmit resolved: `if (modal.ephemeral) this.remove(interaction.customId)`.
OnSubmitResolves(t) ==
  /\ submits[t].pc = "handler"
  /\ modals' = IF ModalEphemeral[submits[t].modal]
               THEN ModalMapDelete(modals, submits[t].id)
               ELSE modals
  /\ submits' = [submits EXCEPT ![t].pc = "done", ![t].result = "resolved"]
  /\ UNCHANGED <<cooldownVars, commandVars, calls, groupVars, lastGet, invoked, pageVars, utilCalls>>

\* Mutant: the clean-up of ephemeral modals also runs when onSubmit rejected.
OnSubmitRejects_Cleans(t) ==
  /\ submits[t].pc = "handler"
  /\ modals' = IF ModalEphemeral[submits[t].modal]
               THEN ModalMapDelete(modals, submits[t].id)
               ELSE modals
  /\ submits' = [submits EXCEPT ![t].pc = "done", ![t].result = "rejected",
                                ![t].err = "handler"]
  /\ UNCHANGED <<cooldownVars, commandVars, calls, groupVars, lastGet, invoked,
                 pageVars, utilCalls>>

\* onSubmit rejected: handleSubmit rejects with it, nothing is removed.
OnSubmitRejects(t) ==
  /\ submits[t].pc = "handler"
  /\ submits' = [submits EXCEPT ![t].pc = "done", ![t].result = "rejected",
                                ![t].err = "handler"]
  /\ UNCHANGED <<cooldownVars, commandVars, calls, groupVars, modals, lastGet, invoked,
                 pageVars, utilCalls>>

\* The caller drops a settled submission.
SubmitFinish(t) ==
  /\ submits[t].pc = "done"
  /\ submits' = [submits EXCEPT ![t] = IdleSubmit]
  /\ UNCHANGED <<cooldownVars, commandVars, calls, groupVars, modals, lastGet, invoked,
                 pageVars, utilCalls>>

\* The registry and its lookup.
NextModalGet ==
  \/ \E m \in ModalDefs : BuildAndRegister(m)
  \/ \E id \in Ids : ModalRemove(id)
  \/ ModalClear
  \/ \E id \in Ids : CallGet(id)

SpecModalGet == Init /\ [][NextModalGet]_vars

\* Submissions handled one after the other.
NextModal ==
  \/ \E m \in ModalDefs : BuildAndRegister(m)
  \/ \E t \in Sequential, id \in Ids : HandleSubmit(t, id)
  \/ \E t \in Sequential : OnSubmitResolves(t)
  \/ \E t \in Sequential : OnSubmitRejects(t)
  \/ \E t \in Sequential : SubmitFinish(t)

SpecModal == Init /\ [][NextModal]_vars

\* Duplicate submissions delivered concurrently, each under the exact id of a
\* definition and with handlers that resolve; the tasks interleave at the await.
NextModalRace ==
  \/ \E m \in ModalDefs : BuildAndRegister(m)
  \/ \E t \in Tasks, m \in ModalDefs : HandleSubmit(t, ModalId[m])
  \/ \E t \in Tasks : OnSubmitResolves(t)
  \/ \E t \in Tasks : SubmitFinish(t)

SpecModalRace == Init /\ [][NextModalRace]_vars

----------------------------------------------------------------------------
(* PaginatedEmbed *)

\* Math.min and Math.max
MathMin(a, b) == IF a <= b THEN a ELSE b

MathMax(a, b) == IF a >= b THEN a ELSE b

\* Mutant: everybody passes the owner check.
IsOwner_Anyone(p, user) == TRUE

\* `btnInteraction.user.id !== this.interaction.user.id`, negated.
IsOwner(p, user) == user = p.owner

\* Mutant: `next` steps without looking at the length.
PaginationSwitch_NoClamp(action, index, items) ==
  CASE action = "prev" -> Some(MathMax(0, index - 1))
    [] action = "next" -> Some(index + 1)
    [] OTHER -> Undefined

\* The switch on the action: the new index, or nothing for the default branch.
PaginationSwitch(action, index, items) ==
  CASE action = "prev" -> Some(MathMax(0, index - 1))
    [] action = "next" -> Some(MathMin(Len(items) - 1, index + 1))
    [] OTHER -> Undefined

\* `this.items = result.newItems; this.index = Math.min(this.index, length - 1)`
Replaced(p, l) == [p EXCEPT !.items = l, !.index = MathMin(p.index, Len(l) - 1)]

\* Mutant: the end handler leaves the controls alone.
EndHandler_NoAttempt(p) == [p EXCEPT !.phase = "ended"]

\* The collector ends and emits `end` once: the end handler calls
\* interaction.editReply({ components: [] }) and waits for it.
EndHandler(p) == [p EXCEPT !.phase = "ended", !.clear = "pending", !.clears = @ + 1]

\* stop(): the collector, once there is one, is stopped; stopping a collector
\* that has ended does nothing.
Stopped(p) == IF p.phase = "active" THEN EndHandler(p) ELSE p

\* Mutant: a handled click is also run through the pagination switch.
Handled_AlsoPaginates(p, action, r) ==
  LET p1 == IF r.newItems # Undefined THEN Replaced(p, ValueOf(r.newItems)) ELSE p
      i == PaginationSwitch(action, p1.index, p1.items)
      p2 == IF i = Undefined THEN p1 ELSE [p1 EXCEPT !.index = ValueOf(i)]
  IN IF r.newItems # Undefined /\ (Len(p2.items) = 0 \/ r.stopCollector)
     THEN [page |-> Stopped(p2), update |-> FALSE]
     ELSE [page |-> p2, update |-> action # "delete"]

\* The handled branch after onCustomButton resolved with r: the session it
\* leaves and whether btnInteraction.update is called.
Handled(p, action, r) ==
  LET p1 == IF r.newItems # Undefined THEN Replaced(p, ValueOf(r.newItems)) ELSE p
  IN IF r.newItems # Undefined /\ (Len(p1.items) = 0 \/ r.stopCollector)
     THEN [page |-> Stopped(p1), update |-> FALSE]
     ELSE [page |-> p1, update |-> action # "delete"]

\* The pagination branch: the session it leaves and whether update is called.
Paginated(p, action) ==
  LET i == PaginationSwitch(action, p.index, p.items)
  IN IF i = Undefined
     THEN [page |-> p, update |-> FALSE]
     ELSE [page |-> [p EXCEPT !.index = ValueOf(i)], update |-> TRUE]

\* The click after the synchronous stretch that ended in o: it waits for update
\* or its handler has returned.
Continued(k, o, from) ==
  IF o.update THEN [k EXCEPT !.pc = "update", !.from = from] ELSE IdleClick

\* new PaginatedEmbed(interaction, items, buildEmbed, options)
Construct(user, items, handler) ==
  /\ page.phase = "none"
  /\ page' = [NoPage EXCEPT !.phase = "built", !.owner = user, !.items = items,
                             !.handler = handler]
  /\ UNCHANGED <<cooldownVars, commandVars, calls, groupVars, modalVars, clicks, utilCalls>>

\* start() up to its first await: the first page is handed to safeReply.
Start ==
  /\ page.phase = "built"
  /\ page' = [page EXCEPT !.phase = "starting"]
  /\ UNCHANGED <<cooldownVars, commandVars, calls, groupVars, modalVars, clicks, utilCalls>>

\* safeReply and fetchReply resolved: the collector is created and subscribed.
Started ==
  /\ page.phase = "starting"
  /\ page' = [page EXCEPT !.phase = "active"]
  /\ UNCHANGED <<cooldownVars, commandVars, calls, groupVars, modalVars, clicks, utilCalls>>

\* safeReply or fetchReply rejected: start() rejects, there is no collector.
StartFails ==
  /\ page.phase = "starting"
  /\ page' = [page EXCEPT !.phase = "failed"]
  /\ UNCHANGED <<cooldownVars, commandVars, calls, groupVars, modalVars, clicks, utilCalls>>

\* The collector's time is over.
TimerElapses ==
  /\ page.phase = "active"
  /\ page' = EndHandler(page)
  /\ UNCHANGED <<cooldownVars, commandVars, calls, groupVars, modalVars, clicks, utilCalls>>

\* stop() called from outside, once start() has been called.
Stop ==
  /\ page.phase \in {"starting", "active"}
  /\ ~page.stopped
  /\ page' = [Stopped(page) EXCEPT !.stopped = TRUE]
  /\ UNCHANGED <<cooldownVars, commandVars, calls, groupVars, modalVars, clicks, utilCalls>>

\* The editReply of the end handler settled; a rejection is thrown on as an
\* InteractionError `failed`.
ClearSettles(ok) ==
  /\ page.clear = "pending"
  /\ page' = [page EXCEPT !.clear = IF ok THEN "done" ELSE "failed"]
  /\ UNCHANGED <<cooldownVars, commandVars, calls, groupVars, modalVars, clicks, utilCalls>>

\* The collect handler up to its first await: the owner check with its private
\* reply, the call of onCustomButton when there is one, else the switch.
Collect(t, user, action) ==
  LET k == [IdleClick EXCEPT !.user = user, !.action = action]
      o == Paginated(page, action)
  IN /\ page.phase = "active"
     /\ clicks[t].pc = "idle"
     /\ IF ~IsOwner(page, user)
        THEN /\ clicks' = [clicks EXCEPT ![t] =
                  [k EXCEPT !.pc = "reply", !.reply = NotYourButton]]
             /\ UNCHANGED page
        ELSE IF page.handler
        THEN /\ clicks' = [clicks EXCEPT ![t] = [k EXCEPT !.pc = "custom"]]
             /\ UNCHANGED page
        ELSE /\ page' = o.page
             /\ clicks' = [clicks EXCEPT ![t] = Continued(k, o, Some(page.index))]
     /\ UNCHANGED <<cooldownVars, commandVars, calls, groupVars, modalVars, utilCalls>>

\* onCustomButton resolved with r: the handled branch, or on to the switch.
CustomReturns(t, r) ==
  LET k == clicks[t]
      o == IF r.handled THEN Handled(page, k.action, r) ELSE Paginated(page, k.action)
  IN /\ k.pc = "custom"
     /\ page' = o.page
     /\ clicks' = [clicks EXCEPT ![t] =
          Continued(k, o, IF r.handled THEN Undefined ELSE Some(page.index))]
     /\ UNCHANGED <<cooldownVars, commandVars, calls, groupVars, modalVars, utilCalls>>

\* onCustomButton rejected: the collect handler rejects with it.
CustomThrows(t) ==
  /\ clicks[t].pc = "custom"
  /\ clicks' = [clicks EXCEPT ![t] = IdleClick]
  /\ UNCHANGED <<cooldownVars, commandVars, calls, groupVars, modalVars, page, utilCalls>>

\* btnInteraction.update settled, one way or the other.
UpdateSettles(t) ==
  /\ clicks[t].pc = "update"
  /\ clicks' = [clicks EXCEPT ![t] = IdleClick]
  /\ UNCHANGED <<cooldownVars, commandVars, calls, groupVars, modalVars, page, utilCalls>>

\* The private reply to a foreign click settled.
RejectionSettles(t) ==
  /\ clicks[t].pc = "reply"
  /\ clicks' = [clicks EXCEPT ![t] = IdleClick]
  /\ UNCHANGED <<cooldownVars, commandVars, calls, groupVars, modalVars, page, utilCalls>>

\* One session of the user U1 from construction to its end; every click is a
\* task of its own and the tasks interleave at their awaits.
NextPage ==
  \/ \E items \in ItemLists, handler \in BOOLEAN : Construct("U1", items, handler)
  \/ Start
  \/ Started
  \/ StartFails
  \/ TimerElapses
  \/ Stop
  \/ \E ok \in BOOLEAN : ClearSettles(ok)
  \/ \E t \in Tasks, user \in Users, action \in PageActions : Collect(t, user, action)
  \/ \E t \in Tasks, r \in HandlerResults : CustomReturns(t, r)
  \/ \E t \in Tasks : CustomThrows(t)
  \/ \E t \in Tasks : UpdateSettles(t)
  \/ \E t \in Tasks : RejectionSettles(t)

SpecPage == Init /\ [][NextPage]_vars

\* The same session with its clicks delivered one after the other. The
\* collector is created with `time`, a timer that no click restarts, so the
\* timer fires if the session stays alive.
NextPageLive ==
  \/ \E items \in ItemLists, handler \in BOOLEAN : Construct("U1", items, handler)
  \/ Start
  \/ Started
  \/ StartFails
  \/ TimerElapses
  \/ Stop
  \/ \E ok \in BOOLEAN : ClearSettles(ok)
  \/ \E t \in Sequential, user \in Users, action \in PageActions : Collect(t, user, action)
  \/ \E t \in Sequential, r \in HandlerResults : CustomReturns(t, r)
  \/ \E t \in Sequential : CustomThrows(t)
  \/ \E t \in Sequential : UpdateSettles(t)
  \/ \E t \in Sequential : RejectionSettles(t)

SpecPageLive == Init /\ [][NextPageLive]_vars /\ WF_vars(TimerElapses)

----------------------------------------------------------------------------
(* The utilities: getPermissionsForLevel, TIMES_MILISECONDS and safeReply *)
(* called directly. utilCalls is the history of these calls.              *)

\* The bits of the permission flags the levels below name.
FlagBits == [KickMembers |-> 2, Administrator |-> 8]

Flags == DOMAIN FlagBits

\* A value of type PermissionLevel: one of the four names, null, undefined, a
\* bigint, a number, or an array of flag names.
Level(kind, name, num, flags) ==
  [kind |-> kind, name |-> name, num |-> num, flags |-> flags]

FlagLists == {<<>>} \cup {<<f>> : f \in Flags} \cup {<<f, g>> : f, g \in Flags}

Levels ==
  {Level("string", n, 0, <<>>) : n \in {"admin", "owner", "disabled", "user"}}
    \cup {Level(k, "", 0, <<>>) : k \in {"null", "undefined"}}
    \cup {Level("number", "", n, <<>>) : n \in {0, 8}}
    \cup {Level("bigint", "", 2, <<>>)}
    \cup {Level("array", "", 0, fs) : fs \in FlagLists}

RECURSIVE BitsOf(_)
\* `new PermissionsBitField(level).bitfield`: the union of the bits named.
BitsOf(fs) ==
  IF fs = {} THEN 0
  ELSE LET f == CHOOSE g \in fs : TRUE IN FlagBits[f] + BitsOf(fs \ {f})

\* Mutant: 'disabled' falls through to null like 'user'.
GetPermissionsForLevel_DisabledOpen(level) ==
  IF level.kind = "string" /\ level.name = "admin" THEN Some(FlagBits["Administrator"])
  ELSE IF level.kind = "string" /\ level.name = "owner" THEN Some(0)
  ELSE IF level.kind \in {"bigint", "number"} THEN Some(level.num)
  ELSE IF level.kind = "array"
  THEN Some(BitsOf({level.flags[i] : i \in DOMAIN level.flags}))
  ELSE Undefined

\* getPermissionsForLevel: the bitfield of a level, or null (Undefined here).
GetPermissionsForLevel(level) ==
  IF level.kind = "string" /\ level.name = "admin" THEN Some(FlagBits["Administrator"])
  ELSE IF level.kind = "string" /\ level.name \in {"owner", "disabled"} THEN Some(0)
  ELSE IF level.kind \in {"bigint", "number"} THEN Some(level.num)
  ELSE IF level.kind = "array"
  THEN Some(BitsOf({level.flags[i] : i \in DOMAIN level.flags}))
  ELSE Undefined

\* The enum TIMES_MILISECONDS, member by member as declared.
TIMES_MILISECONDS ==
  [SECOND |-> 1000, MINUTE |-> 60000, TEN_MINUTES |-> 600000,
   HOUR |-> 6000000, DAY |-> 14400000]

\* The ages at which safeReply is called: fresh, exactly three minutes old and
\* one minute older.
Ages == {0, ThreeMinutes, ThreeMinutes + 1}

\* What the platform does with the calls of one safeReply.
Platform == {"ok", "primitive rejects", "fetchReply rejects"}

\* Mutant: no check of the interaction's age.
SafeReplyCall_NoWindow(age, replied, deferred, platform) ==
  LET via == Primitive([replied |-> replied \/ deferred])
      second == IF via = "reply" /\ platform # "primitive rejects"
                THEN <<"fetchReply">> ELSE <<>>
      failed == \/ platform = "primitive rejects"
                \/ via = "reply" /\ platform = "fetchReply rejects"
  IN [platform |-> <<via>> \o second,
      outcome |-> IF failed THEN "failed" ELSE "message",
      carries |-> IF failed THEN "interaction.id" ELSE ""]

\* One whole call of safeReply on an interaction of the given age: the calls
\* it makes on the interaction, in order, and how it ends (message | expired |
\* failed); an InteractionError carries interaction.id.
SafeReplyCall(age, replied, deferred, platform) ==
  IF InteractionExpired([created |-> 0], age)
  THEN [platform |-> <<>>, outcome |-> "expired", carries |-> "interaction.id"]
  ELSE LET via == Primitive([replied |-> replied \/ deferred])
           second == IF via = "reply" /\ platform # "primitive rejects"
                     THEN <<"fetchReply">> ELSE <<>>
           failed == \/ platform = "primitive rejects"
                     \/ via = "reply" /\ platform = "fetchReply rejects"
       IN [platform |-> <<via>> \o second,
           outcome |-> IF failed THEN "failed" ELSE "message",
           carries |-> IF failed THEN "interaction.id" ELSE ""]

UtilCall(fn, arg, result) == [fn |-> fn, arg |-> arg, result |-> result]

CallGetPermissions(level) ==
  /\ Len(utilCalls) < MaxReads
  /\ utilCalls' = Append(utilCalls,
       UtilCall("getPermissionsForLevel", level, GetPermissionsForLevel(level)))
  /\ UNCHANGED <<cooldownVars, commandVars, calls, groupVars, modalVars, pageVars>>

ReadTime(member) ==
  /\ Len(utilCalls) < MaxReads
  /\ utilCalls' = Append(utilCalls,
       UtilCall("TIMES_MILISECONDS", member, TIMES_MILISECONDS[member]))
  /\ UNCHANGED <<cooldownVars, commandVars, calls, groupVars, modalVars, pageVars>>

CallSafeReply(age, replied, deferred, platform) ==
  /\ Len(utilCalls) < MaxReads
  /\ utilCalls' = Append(utilCalls,
       UtilCall("safeReply",
                [age |-> age, replied |-> replied, deferred |-> deferred,
                 platform |-> platform],
                SafeReplyCall(age, replied, deferred, platform)))
  /\ UNCHANGED <<cooldownVars, commandVars, calls, groupVars, modalVars, pageVars>>

NextUtil ==
  \/ \E level \in Levels : CallGetPermissions(level)
  \/ \E member \in DOMAIN TIMES_MILISECONDS : ReadTime(member)
  \/ \E age \in Ages, replied, deferred \in BOOLEAN, platform \in Platform :
       CallSafeReply(age, replied, deferred, platform)

SpecUtil == Init /\ [][NextUtil]_vars

----------------------------------------------------------------------------
(* CommandManager.getHelpPages, called on a registry of commands and groups *)

\* The largest commandsPerPage that is tried.
MaxPerPage == 3

\* The names of the entries in the order of localeCompare.
HelpNames == <<"admin", "help", "mod", "ping", "slow", "zero">>

\* The children of the entries that are SubcommandGroups, in map order; the
\* other entries are Commands.
HelpGroups == [n \in {"admin", "mod"} |->
                IF n = "admin" THEN <<"ban", "mute", "info">> ELSE <<"warn">>]

\* One line of a help page: the header of a section or the line of a command.
HelpLine(mark, name) == [mark |-> mark, name |-> name]

OtherHeader == HelpLine("header", "OTHER")

RECURSIVE GetAllSorted(_, _)
\* getAllSorted: the registered names among HelpNames[i..], in order.
GetAllSorted(names, i) ==
  IF i > Len(HelpNames) THEN <<>>
  ELSE (IF HelpNames[i] \in names THEN <<HelpNames[i]>> ELSE <<>>)
         \o GetAllSorted(names, i + 1)

\* The page of a group: its header, then one line per child.
GroupPage(name) ==
  <<HelpLine("header", name)>>
    \o [i \in 1..Len(HelpGroups[name]) |-> HelpLine("item", HelpGroups[name][i])]

RECURSIVE Collect_Help(_, _, _, _)
\* The loop of getHelpPages over the sorted entries: the pages of the groups
\* and the flat list otherCommands, which receives a header whenever its
\* length is a multiple of commandsPerPage.
Collect_Help(sorted, perPage, pages, other) ==
  IF sorted = <<>> THEN [pages |-> pages, other |-> other]
  ELSE LET name == Head(sorted)
       IN IF name \in DOMAIN HelpGroups
          THEN Collect_Help(Tail(sorted), perPage, Append(pages, GroupPage(name)), other)
          ELSE LET o1 == IF Len(other) % perPage = 0
                         THEN Append(other, OtherHeader) ELSE other
               IN Collect_Help(Tail(sorted), perPage, pages,
                               Append(o1, HelpLine("item", name)))

RECURSIVE Splice(_, _)
\* `while (otherCommands.length) allPages.push(otherCommands.splice(0, n))`
Splice(other, perPage) ==
  IF other = <<>> THEN <<>>
  ELSE IF Len(other) <= perPage THEN <<other>>
  ELSE <<SubSeq(other, 1, perPage)>> \o Splice(SubSeq(other, perPage + 1, Len(other)), perPage)

\* getHelpPages(commandsPerPage) on a registry holding the given names.
GetHelpPages(names, perPage) ==
  LET r == Collect_Help(GetAllSorted(names, 1), perPage, <<>>, <<>>)
  IN r.pages \o Splice(r.other, perPage)

\* One call of getHelpPages; the caller keeps the pages of the latest call.
CallGetHelpPages(names, perPage) ==
  /\ utilCalls' = <<UtilCall("getHelpPages", [names |-> names, perPage |-> perPage],
                             GetHelpPages(names, perPage))>>
  /\ UNCHANGED <<cooldownVars, commandVars, calls, groupVars, modalVars, pageVars>>

NextHelp ==
  \E names \in SUBSET {HelpNames[i] : i \in DOMAIN HelpNames}, perPage \in 1..MaxPerPage :
    CallGetHelpPages(names, perPage)

SpecHelp == Init /\ [][NextHelp]_vars

----------------------------------------------------------------------------
(* Claims about checkCooldown, checked under SpecCooldown *)

CallMade == lastCall.name # ""

\* The longest cooldown any command is declared with.
LongestCooldown ==
  LET ds == UNION {CooldownOfName[n] : n \in Names}
  IN CHOOSE d \in ds : \A e \in ds : e <= d

\* C1: for a command with cooldown D > 0, a call that returns 0 at time t stores
\* exactly t + D for (command, user); a later call of that user at t' with
\* t <= t' < t + D returns exactly t + D - t', which lies in 1..D; and a call at
\* t' >= t + D returns 0 again.
C1_CooldownWindow ==
  (CallMade /\ lastCall.cd # Undefined /\ lastCall.cd # Some(0)) =>
    LET D == ValueOf(lastCall.cd)
        t == lastCall.time
        g == lastCall.preGrant
    IN /\ lastCall.result = 0 =>
            Entry(tracker, lastCall.name, lastCall.user) = Some(t + D)
       /\ (g # Undefined /\ t < ValueOf(g) + D) =>
            /\ lastCall.result = ValueOf(g) + D - t
            /\ lastCall.result > 0
            /\ lastCall.result <= D
       /\ (g # Undefined /\ t >= ValueOf(g) + D) => lastCall.result = 0

\* C1 witness: a call strictly inside the window of an earlier grant was denied.
C1_Witness ==
  /\ CallMade
  /\ lastCall.preGrant # Undefined
  /\ lastCall.time > ValueOf(lastCall.preGrant)
  /\ lastCall.result > 0

\* C3: a denied call (result > 0) leaves the stored expiry of (command, user)
\* as it found it.
C3_DeniedKeepsExpiry ==
  (CallMade /\ lastCall.result > 0) =>
    Entry(tracker, lastCall.name, lastCall.user)
      = Entry(lastCall.pre, lastCall.name, lastCall.user)

\* C3 witness: a denied call whose user still has a stored expiry.
C3_Witness ==
  /\ CallMade
  /\ lastCall.result > 0
  /\ Entry(tracker, lastCall.name, lastCall.user) # Undefined

\* C4: for a command whose cooldown is absent or 0, every call returns 0 and
\* leaves the whole tracker as it was: no map for the name, no entry.
C4_NoCooldownNoState ==
  (CallMade /\ lastCall.cd \in {Undefined, Some(0)}) =>
    /\ lastCall.result = 0
    /\ tracker = lastCall.pre
    /\ ~TrackerHas(tracker, lastCall.name)

\* C4 witness: a call for the command declared with cooldown 0, made while the
\* tracker already held entries of other commands.
C4_Witness ==
  /\ CallMade
  /\ lastCall.cd = Some(0)
  /\ lastCall.pre # EmptyMap

\* C5: a call for (c1, U1) does not change what a call for any other
\* (command, user) pair would return at the time of the call or at any later time.
C5_Independent ==
  CallMade =>
    \A n \in Names, u \in Users :
      <<n, u>> # <<lastCall.name, lastCall.user>> =>
        \A tau \in lastCall.time .. (MaxTime + LongestCooldown) :
          CheckCooldown(tracker, tau, n, CooldownOfName[n], u).result
            = CheckCooldown(lastCall.pre, tau, n, CooldownOfName[n], u).result

\* C5 witness: the call wrote an entry for its own user while another user of the
\* same command was still blocked, and swept nothing of that user.
C5_Witness ==
  /\ CallMade
  /\ lastCall.result = 0
  /\ \E u \in Users \ {lastCall.user} :
       /\ Entry(tracker, lastCall.name, u) # Undefined
       /\ ValueOf(Entry(tracker, lastCall.name, u)) > lastCall.time

----------------------------------------------------------------------------
(* Claims about Command.execute *)

\* The task's cooldown check returned 0 for a command that has a cooldown.
Granted(k) ==
  /\ k.cmd # NoCmd
  /\ k.cd = Some(0)
  /\ CmdCooldown[k.cmd] \notin {Undefined, Some(0)}

Distance(a, b) == IF a >= b THEN a - b ELSE b - a

\* C2: of the invocations of one command name by one user that are delivered
\* concurrently, no two are granted by the cooldown check less than the
\* cooldown duration apart.
C2_OneGrantPerWindow ==
  \A a \in Tasks, b \in Tasks :
    (/\ a # b
     /\ Granted(tasks[a])
     /\ Granted(tasks[b])
     /\ CmdName[tasks[a].cmd] = CmdName[tasks[b].cmd]
     /\ tasks[a].user = tasks[b].user)
    => Distance(tasks[a].at, tasks[b].at) >= ValueOf(CmdCooldown[tasks[a].cmd])

\* C2 witness: while a granted invocation is still inside run, a second
\* invocation of the same name by the same user was denied by the cooldown check.
C2_Witness ==
  \E a \in Tasks, b \in Tasks :
    /\ a # b
    /\ Granted(tasks[a])
    /\ tasks[a].pc = "run"
    /\ tasks[b].vmsg = CooldownMessage
    /\ tasks[b].user = tasks[a].user
    /\ CmdName[tasks[b].cmd] = CmdName[tasks[a].cmd]

\* The replies of a task that reached the invoker.
Delivered(k) == {i \in 1..Len(k.replies) : k.replies[i].status \in {"sent", "unfetched"}}

LogsAt(k, level) == {i \in 1..Len(k.logs) : k.logs[i].level = level}

ValidationFailed(k) == k.vmsg \in {GuildOnlyMessage, CooldownMessage, CustomMessage}

\* C6: the promise returned by Command.execute never rejects, whatever
\* validation, the handler and the reply primitive do.
C6_ExecuteNeverRejects ==
  \A t \in Tasks : tasks[t].result # "rejected"

\* C7: when validation fails, run is never invoked, exactly one reply is sent,
\* it is the validation message flagged ephemeral, and no error record is logged.
C7_ValidationFailure ==
  \A t \in Tasks :
    (tasks[t].pc = "done" /\ ValidationFailed(tasks[t])) =>
      /\ tasks[t].ran = 0
      /\ Cardinality(Delivered(tasks[t])) = 1
      /\ \A i \in Delivered(tasks[t]) :
           /\ tasks[t].replies[i].text = tasks[t].vmsg
           /\ tasks[t].replies[i].ephemeral
      /\ LogsAt(tasks[t], "error") = {}

\* C8 as stated: when run throws, execute logs exactly one error record with
\* console mirroring and no informational record, and the invoker receives the
\* fixed text.
C8_AsStated ==
  \A t \in Tasks :
    (tasks[t].pc = "done" /\ tasks[t].threw) =>
      /\ Cardinality(LogsAt(tasks[t], "error")) = 1
      /\ \A i \in LogsAt(tasks[t], "error") : tasks[t].logs[i].mirror
      /\ LogsAt(tasks[t], "info") = {}
      /\ \E i \in Delivered(tasks[t]) : tasks[t].replies[i].text = GenericFailure

\* C8 amended: when run throws in a Command that has a logger attached, execute
\* logs exactly one record, error-level and mirrored to the console, and calls
\* safeReply exactly once, with the fixed text; that reply reaches the invoker
\* unless the interaction has expired or the reply primitive rejects.
C8_HandlerThrows ==
  \A t \in Tasks :
    (tasks[t].pc = "done" /\ tasks[t].threw /\ tasks[t].hadLogger) =>
      /\ Len(tasks[t].logs) = 1
      /\ tasks[t].logs[1].level = "error"
      /\ tasks[t].logs[1].mirror
      /\ Len(tasks[t].replies) = 1
      /\ tasks[t].replies[1].text = GenericFailure
      /\ tasks[t].replies[1].status \in {"sent", "unfetched", "failed", "expired"}
      /\ tasks[t].replies[1].status = "expired" <=> tasks[t].err = "expired"
      /\ tasks[t].replies[1].status = "sent" <=> tasks[t].result = "resolved"

\* C8 witness: run threw in a Command with a logger and the fixed text reached
\* the invoker.
C8_Witness ==
  \E t \in Tasks :
    /\ tasks[t].pc = "done"
    /\ tasks[t].threw
    /\ tasks[t].hadLogger
    /\ tasks[t].replies[1].status = "sent"

----------------------------------------------------------------------------
(* Claims about CommandManager.executeCommand, checked under SpecManager *)

\* C9: for an entry found under the name, with a logger attached, whose
\* validation passes and whose run resolves: run is invoked exactly once, one
\* informational record and no error record is logged, no generic failure reply
\* is made, and executeCommand resolves.
C9_SuccessfulDispatch ==
  \A t \in Tasks :
    (/\ tasks[t].name # ""
     /\ tasks[t].found # NoCmd
     /\ tasks[t].hadLogger
     /\ tasks[t].vmsg = NoError
     /\ ~tasks[t].threw) =>
      /\ tasks[t].ran = 1
      /\ LogsAt(tasks[t], "error") = {}
      /\ \A i \in 1..Len(tasks[t].replies) : tasks[t].replies[i].text # GenericFailure
      /\ tasks[t].pc \in {"run", "done"}
      /\ tasks[t].pc = "done" =>
           /\ Cardinality(LogsAt(tasks[t], "info")) = 1
           /\ tasks[t].result = "resolved"

\* C9 witness: such a dispatch has completed.
C9_Witness ==
  \E t \in Tasks :
    /\ tasks[t].name = "ping"
    /\ tasks[t].hadLogger
    /\ tasks[t].pc = "done"
    /\ tasks[t].ran = 1
    /\ tasks[t].result = "resolved"

\* C10: executeCommand(name) with nothing registered under name throws
\* `Command not found` and executes, validates, replies and logs nothing;
\* otherwise it runs execute of exactly the entry registered under name at the
\* time of the call.
C10_DispatchByName ==
  \A t \in Tasks :
    tasks[t].name # "" =>
      IF tasks[t].found = NoCmd
      THEN /\ tasks[t].pc = "done"
           /\ tasks[t].result = "rejected"
           /\ tasks[t].err = "notfound"
           /\ tasks[t].cmd = NoCmd
           /\ tasks[t].vmsg = ""
           /\ tasks[t].cd = Undefined
           /\ tasks[t].ran = 0
           /\ tasks[t].logs = <<>>
           /\ tasks[t].replies = <<>>
      ELSE tasks[t].cmd = tasks[t].found

\* C10 witness: a dispatch by a name that is not registered, while another
\* name is.
C10_Witness ==
  \E t \in Tasks :
    /\ tasks[t].name # ""
    /\ tasks[t].found = NoCmd
    /\ tasks[t].err = "notfound"
    /\ commands # EmptyMap

----------------------------------------------------------------------------
(* Claims about the registry of the CommandManager, checked under SpecRegistry *)

\* The call at position i writes or removes the key name.
Touches(i, name) ==
  \/ calls[i].op = "clear"
  \/ calls[i].op = "unregister" /\ calls[i].name = name
  \/ /\ calls[i].op \in {"register", "registerMultiple"}
     /\ \E j \in 1..Len(calls[i].cmds) : CmdName[calls[i].cmds[j]] = name

\* Read off the history: the command most recently registered under name and
\* not unregistered or cleared since, or none.
LatestRegistered(name) ==
  LET touching == {i \in 1..Len(calls) : Touches(i, name)}
  IN IF touching = {} THEN NoCmd
     ELSE LET i == CHOOSE h \in touching : \A g \in touching : g <= h
              cs == calls[i].cmds
              named == {j \in 1..Len(cs) : CmdName[cs[j]] = name}
          IN IF calls[i].op \in {"clear", "unregister"} THEN NoCmd
             ELSE cs[CHOOSE j \in named : \A g \in named : g <= j]

\* C11: after any sequence of register, registerMultiple, unregister and clear
\* the registry holds at most one entry per name; get(name) returns the entry
\* most recently registered under that name unless it was unregistered or
\* cleared since, and undefined otherwise; has(name) is true exactly when
\* get(name) is defined; size is the number of distinct registered names.
C11_RegistryByName ==
  /\ \A name \in Names :
       /\ Cardinality({e \in ManagerEntries(commands) : CmdName[e[2]] = name}) <= 1
       /\ ManagerGet(commands, name) = LatestRegistered(name)
       /\ ManagerHas(commands, name) <=> ManagerGet(commands, name) # NoCmd
  /\ ManagerSize(commands)
       = Cardinality({name \in Names : LatestRegistered(name) # NoCmd})

\* C11 witness: one registerMultiple carried c1 and then c2, both named `slow`,
\* after `slow` had been unregistered; c2 is what get returns, next to `ping`.
C11_Witness ==
  /\ Len(calls) >= 3
  /\ calls[Len(calls)].op = "registerMultiple"
  /\ calls[Len(calls)].cmds = <<"c1", "c2">>
  /\ \E i \in 1..(Len(calls) - 1) : calls[i].op = "unregister" /\ calls[i].name = "slow"
  /\ ManagerGet(commands, "slow") = "c2"
  /\ ManagerSize(commands) = 2

\* The positions of the setLogger calls in the history.
LoggerCalls == {i \in 1..Len(calls) : calls[i].op = "setLogger"}

LastLoggerCall == CHOOSE i \in LoggerCalls : \A g \in LoggerCalls : g <= i

\* C12: once setLogger(L) was called, every entry of the registry has the L of
\* the latest such call as its logger, whether the entry was registered before
\* or after that call.
C12_LoggerOnEveryEntry ==
  LoggerCalls # {} =>
    \A e \in ManagerEntries(commands) : cmdLogger[e[2]] = calls[LastLoggerCall].logger

\* C12 witness: an entry registered before the latest setLogger and one
\* registered after it are both in the registry, and an earlier setLogger had
\* passed another logger.
C12_Witness ==
  /\ LoggerCalls # {}
  /\ \E i \in LoggerCalls : calls[i].logger # calls[LastLoggerCall].logger
  /\ \E i \in 1..Len(calls) :
       /\ i < LastLoggerCall
       /\ calls[i].op = "register"
       /\ \E e \in ManagerEntries(commands) : e[2] = calls[i].cmds[1]
  /\ \E i \in 1..Len(calls) :
       /\ i > LastLoggerCall
       /\ calls[i].op = "register"
       /\ \E e \in ManagerEntries(commands) : e[2] = calls[i].cmds[1]

----------------------------------------------------------------------------
(* Claims about SubcommandGroup.execute, checked under SpecGroup *)

\* C13: execute with a selected name that is no key of the subcommand map
\* rejects with `Unknown subcommand`, and by then no child was executed, no
\* cooldown entry was written, nothing was logged and no reply was sent.
C13_UnknownSubcommand ==
  \A t \in Tasks :
    (groupCall[t].pc # "idle" /\ groupCall[t].sel \notin DOMAIN Subcommands) =>
      /\ groupCall[t].pc = "done"
      /\ groupCall[t].result = "rejected"
      /\ groupCall[t].err = "unknown"
      /\ tasks[t].cmd = NoCmd
      /\ tasks[t].ran = 0
      /\ tracker = groupCall[t].pre
      /\ tasks[t].logs = <<>>
      /\ tasks[t].replies = <<>>

\* C13 witness: `kick` was selected on a group that has a logger, after earlier
\* invocations of its children had left cooldown entries behind.
C13_Witness ==
  /\ groupCall["t1"].pc = "done"
  /\ groupCall["t1"].sel = "kick"
  /\ groupCall["t1"].err = "unknown"
  /\ groupLogger # NoLogger
  /\ tracker # EmptyMap

----------------------------------------------------------------------------
(* Claims about the ModalManager *)

\* The part of id before its first colon, the whole id when it has none.
BeforeFirstColon(id) ==
  LET n == CHOOSE k \in 0..Len(id) :
             /\ \A i \in 1..k : id[i] # ":"
             /\ k = Len(id) \/ id[k + 1] = ":"
  IN SubSeq(id, 1, n)

\* C14: get(id) returns the definition registered under exactly id when there is
\* one, even if another is registered under the part of id before its first
\* colon; without an exact entry it returns the definition registered under that
\* part; it returns undefined when neither exists. With only `e` registered,
\* get(`e:1`) and get(`e`) return the same definition.
C14_ExactBeforePrefix ==
  /\ lastGet.called =>
       LET id == lastGet.id
           reg == lastGet.reg
           base == BeforeFirstColon(id)
       IN /\ id \in DOMAIN reg => lastGet.result = reg[id]
          /\ (id \notin DOMAIN reg /\ base \in DOMAIN reg) => lastGet.result = reg[base]
          /\ (id \notin DOMAIN reg /\ base \notin DOMAIN reg) => lastGet.result = NoModal
  /\ DOMAIN modals = {<<"e">>} =>
       /\ ModalGet(modals, <<"e", ":", "1">>) = ModalGet(modals, <<"e">>)
       /\ ModalGet(modals, <<"e">>) = modals[<<"e">>]

\* C14 witness: get(`e:1`) was called while definitions were registered under
\* `e:1` and under `e`, and answered with the one under `e:1`.
C14_Witness ==
  /\ lastGet.called
  /\ lastGet.id = <<"e", ":", "1">>
  /\ {<<"e">>, <<"e", ":", "1">>} \subseteq DOMAIN lastGet.reg
  /\ lastGet.result = "m2"

\* The definitions a registry holds.
Stored(reg) == {reg[i] : i \in DOMAIN reg}

\* C15: whenever handleSubmit completes successfully for an id that resolved,
\* by exact match or by the part before the colon, to an ephemeral definition,
\* that definition is no longer in the registry and a lookup of the same id finds
\* nothing, so that a second handleSubmit with it fails with `Modal not found`;
\* a successful handleSubmit of a non-ephemeral definition leaves the registry
\* as it was.
C15_OneShotEphemeral ==
  [][\A t \in Tasks :
       OnSubmitResolves(t) =>
         IF ModalEphemeral[submits[t].modal]
         THEN /\ submits[t].modal \notin Stored(modals')
              /\ ModalGet(modals', submits[t].id) = NoModal
         ELSE modals' = modals]_vars

\* C16: however duplicate submissions for an ephemeral definition interleave,
\* its onSubmit is invoked at most once per registration.
C16_HandledAtMostOnce ==
  \A m \in ModalDefs : ModalEphemeral[m] => invoked[m] <= 1

----------------------------------------------------------------------------
(* Claims about the PaginatedEmbed session, checked under SpecPage *)

\* C17: while the session is alive (started, not ended) and its item list is
\* not empty, 0 <= index <= items.length - 1, whatever prev, next and custom
\* clicks were handled and however they interleaved.
C17_IndexInRange ==
  (page.phase = "active" /\ page.items # <<>>) =>
    /\ 0 <= page.index
    /\ page.index <= Len(page.items) - 1

\* The pagination switch runs for the click of task t with the action a: in the
\* collect handler itself when there is no custom handler, or after the custom
\* handler reported not handled.
SwitchRuns(t, a) ==
  \/ ~page.handler /\ Collect(t, page.owner, a)
  \/ /\ clicks[t].action = a
     /\ \E r \in HandlerResults : ~r.handled /\ CustomReturns(t, r)

\* C18: with n >= 1 items, when the pagination switch runs for an owner click,
\* `next` sets index to min(index + 1, n - 1) and `prev` sets it to
\* max(index - 1, 0), and the item list stays as it is; from index 0 with 3
\* items three `next` yield 1, 2, 2, and `prev` at index 0 leaves 0.
C18_PrevNext ==
  [][/\ \A t \in Tasks :
          LET n == Len(page.items)
              i == page.index
          IN /\ (n >= 1 /\ SwitchRuns(t, "next")) =>
                  /\ page'.index = IF i + 1 <= n - 1 THEN i + 1 ELSE n - 1
                  /\ page'.items = page.items
             /\ (n >= 1 /\ SwitchRuns(t, "prev")) =>
                  /\ page'.index = IF i - 1 >= 0 THEN i - 1 ELSE 0
                  /\ page'.items = page.items
     /\ LET three == <<1, 2, 3>>
            i1 == PaginationSwitch("next", 0, three)
            i2 == PaginationSwitch("next", ValueOf(i1), three)
            i3 == PaginationSwitch("next", ValueOf(i2), three)
        IN /\ <<i1, i2, i3>> = <<Some(1), Some(2), Some(2)>>
           /\ PaginationSwitch("prev", 0, three) = Some(0)]_vars

\* C18 witness: `next` was clicked by the owner at the last of three items; the
\* switch started from index 2, the index is 2 and the re-render is on its way.
C18_Witness ==
  \E t \in Tasks :
    /\ clicks[t].pc = "update"
    /\ clicks[t].action = "next"
    /\ clicks[t].from = Some(2)
    /\ page.index = 2
    /\ Len(page.items) = 3

\* C19: when the custom handler reports handled and returns an empty replacement
\* list or asks for the session to stop, with or without a replacement list,
\* the session is ended and no re-render is issued for that click.
C19_StopOrEmptyEnds ==
  [][\A t \in Tasks, r \in HandlerResults :
       (/\ CustomReturns(t, r)
        /\ r.handled
        /\ r.newItems = Some(<<>>) \/ r.stopCollector) =>
         /\ page'.phase = "ended"
         /\ clicks'[t].pc # "update"]_vars

\* C20: a click of somebody other than the owner leaves index, items and the
\* whole session as they were, does not call the custom handler, issues no
\* re-render and does not end the session; all it does is send one private
\* rejection reply to the clicking user.
C20_ForeignClick ==
  [][\A t \in Tasks, user \in Users, a \in PageActions :
       (Collect(t, user, a) /\ user # page.owner) =>
         /\ page' = page
         /\ clicks'[t].pc = "reply"
         /\ clicks'[t].user = user
         /\ clicks'[t].reply = [text |-> "You cannot use this button.", ephemeral |-> TRUE]
         /\ \A o \in Tasks \ {t} : clicks'[o] = clicks[o]]_vars

\* C20 witness: a foreign click waits for its private reply while the session,
\* which has a custom handler, is alive away from index 0.
C20_Witness ==
  \E t \in Tasks :
    /\ clicks[t].pc = "reply"
    /\ clicks[t].user # page.owner
    /\ clicks[t].reply.ephemeral
    /\ page.phase = "active"
    /\ page.handler
    /\ page.index > 0

\* C21: once the session has ended, by its timer, by stop() or by an emptied
\* list, its index and its item list never change again and no click goes on to
\* a view update, not even a click whose custom handler was still awaited when
\* the session ended.
C21_EndedIsTerminal ==
  [][page.phase = "ended" =>
       /\ page'.index = page.index
       /\ page'.items = page.items
       /\ \A t \in Tasks : clicks'[t].pc = "update" => clicks[t].pc = "update"]_vars

\* C22: a session whose start() completed reaches Ended, whatever clicks arrive;
\* an ended session has made exactly one attempt to clear the controls, and a
\* failed attempt stays failed without a second one.
C22_TimerEnds ==
  /\ (page.phase = "active") ~> (page.phase = "ended")
  /\ [](page.phase = "ended" => page.clears = 1 /\ page.clear # "none")
  /\ [][page.clear = "failed" => page'.clear = "failed" /\ page'.clears = 1]_vars

\* C22 witness: the session ended while a click was still with its custom
\* handler, and the one attempt to clear the controls failed.
C22_Witness ==
  /\ page.phase = "ended"
  /\ ~page.stopped
  /\ page.clear = "failed"
  /\ page.clears = 1
  /\ clicks["t1"].pc = "custom"

\* C23: once stop() has returned after start() was called, the session is
\* unsubscribed: it is not alive, so that no later click is collected.
C23_StopTerminates == page.stopped => page.phase # "active"

----------------------------------------------------------------------------
(* Claims about exceptions of caller-supplied handlers *)

\* C24: an exception of a modal's onSubmit does not leave handleSubmit, which
\* resolves after answering with the generic failure message, and an exception
\* of onCustomButton does not leave the click handler, which answers the click
\* with the generic failure message.
C24_HandlerErrorsContained ==
  [][\A t \in Tasks :
       /\ OnSubmitRejects(t) => submits'[t].result = "resolved"
       /\ CustomThrows(t) => clicks'[t].reply.text = GenericFailure]_vars

----------------------------------------------------------------------------
(* Claims about the utilities, checked under SpecUtil *)

CallsOf(fn) == {i \in DOMAIN utilCalls : utilCalls[i].fn = fn}

\* C25: getPermissionsForLevel maps 'admin' to the Administrator bit, 'owner'
\* and 'disabled' to 0, and 'user', null and undefined to null; two calls with
\* the same level give the same result.
C25_PermissionTable ==
  /\ \A i \in CallsOf("getPermissionsForLevel") :
       LET level == utilCalls[i].arg
           result == utilCalls[i].result
       IN /\ level.kind = "string" /\ level.name = "admin"
               => result = Some(FlagBits["Administrator"])
          /\ level.kind = "string" /\ level.name \in {"owner", "disabled"}
               => result = Some(0)
          /\ \/ level.kind = "string" /\ level.name = "user"
             \/ level.kind \in {"null", "undefined"}
               => result = Undefined
  /\ \A i, j \in CallsOf("getPermissionsForLevel") :
       utilCalls[i].arg = utilCalls[j].arg => utilCalls[i].result = utilCalls[j].result

C25_Witness ==
  /\ Len(utilCalls) = 2
  /\ \A i \in 1..2 : /\ utilCalls[i].fn = "getPermissionsForLevel"
                     /\ utilCalls[i].arg = Level("string", "disabled", 0, <<>>)
                     /\ utilCalls[i].result = Some(0)

\* C26: safeReply on an interaction older than three minutes raises
\* InteractionError 'expired' and calls neither reply nor followUp; otherwise
\* it calls reply when the interaction is neither replied nor deferred and
\* followUp when it is; a rejection of what it calls raises InteractionError
\* 'failed' with the interaction's id, and nothing is called again.
C26_SafeReplyContract ==
  \A i \in CallsOf("safeReply") :
    LET a == utilCalls[i].arg
        r == utilCalls[i].result
        made == {r.platform[n] : n \in DOMAIN r.platform}
        fresh == ~a.replied /\ ~a.deferred
    IN /\ a.age > ThreeMinutes
            => r.outcome = "expired" /\ made = {} /\ r.carries = "interaction.id"
       /\ a.age <= ThreeMinutes
            => /\ fresh => r.platform[1] = "reply" /\ "followUp" \notin made
               /\ ~fresh => r.platform = <<"followUp">>
               /\ a.platform = "primitive rejects"
                    => /\ r.outcome = "failed"
                       /\ r.carries = "interaction.id"
                       /\ Len(r.platform) = 1
               /\ a.platform = "fetchReply rejects" /\ fresh
                    => /\ r.outcome = "failed"
                       /\ r.carries = "interaction.id"
                       /\ r.platform = <<"reply", "fetchReply">>
               /\ a.platform = "ok" => r.outcome = "message"

C26_Witness ==
  /\ Len(utilCalls) = 2
  /\ utilCalls[1].fn = "safeReply"
  /\ utilCalls[1].arg.age = ThreeMinutes + 1
  /\ utilCalls[1].result.outcome = "expired"
  /\ utilCalls[2].fn = "safeReply"
  /\ utilCalls[2].arg.age = ThreeMinutes
  /\ utilCalls[2].arg.deferred
  /\ utilCalls[2].result = [platform |-> <<"followUp">>, outcome |-> "failed",
                            carries |-> "interaction.id"]

\* The durations the names of TIMES_MILISECONDS stand for, each from the one
\* before it.
RECURSIVE Duration(_)
Duration(member) ==
  CASE member = "SECOND" -> 1000
    [] member = "MINUTE" -> 60 * Duration("SECOND")
    [] member = "TEN_MINUTES" -> 10 * Duration("MINUTE")
    [] member = "HOUR" -> 60 * Duration("MINUTE")
    [] member = "DAY" -> 24 * Duration("HOUR")

\* C27: every member of TIMES_MILISECONDS reads as its duration in
\* milliseconds: SECOND is 1000, MINUTE is 60 SECOND, TEN_MINUTES is 10 MINUTE,
\* HOUR is 60 MINUTE and DAY is 24 HOUR.
C27_Durations ==
  \A i \in CallsOf("TIMES_MILISECONDS") :
    utilCalls[i].result = Duration(utilCalls[i].arg)

----------------------------------------------------------------------------
(* Claims about the order of Command.validate, checked under Spec *)

\* C28: validate checks the guild scope, then the cooldown, then
\* additionalValidation, and stops at the first failure: a guild-scope
\* rejection leaves the cooldown tracker as it was and calls neither
\* checkCooldown nor additionalValidation, a cooldown denial does not call
\* additionalValidation, and additionalValidation runs only after checkCooldown
\* returned 0, with its answer as the result.
C28_ValidationOrder ==
  [][\A t \in Tasks :
       tasks[t].pc = "idle" /\ tasks'[t].pc # "idle" =>
         LET k == tasks'[t]
             denied == CheckCooldown(tracker, now, CmdName[k.cmd], CmdCooldown[k.cmd],
                                     k.user).result > 0
         IN /\ k.vmsg = GuildOnlyMessage
                 => /\ CmdGuildOnly[k.cmd]
                    /\ tracker' = tracker
                    /\ k.cd = Undefined
                    /\ ~k.hook
            /\ k.vmsg # GuildOnlyMessage /\ denied
                 => /\ k.vmsg = CooldownMessage
                    /\ k.cd # Undefined
                    /\ ~k.hook
            /\ k.hook
                 => /\ k.cd = Some(0)
                    /\ ~denied
                    /\ k.vmsg \in {NoError, CustomMessage}]_vars

\* A guild-only command is refused outside a guild while its user is inside
\* the cooldown window of the command's name.
C28_Witness ==
  /\ tasks["t1"].pc # "idle"
  /\ tasks["t1"].vmsg = GuildOnlyMessage
  /\ Entry(tracker, "slow", tasks["t1"].user) # Undefined
  /\ ValueOf(Entry(tracker, "slow", tasks["t1"].user)) > now

----------------------------------------------------------------------------
(* Claims about the clean-up of checkCooldown, checked under SpecCooldown *)

\* C29: after a call of checkCooldown for a command with a non-zero cooldown
\* at time t, the map of that command holds no entry whose expiry is at or
\* before t; the maps of the other command names are as the call found them.
C29_SweptOnCall ==
  CallMade /\ HasCooldown(lastCall.cd) =>
    /\ TrackerHas(tracker, lastCall.name)
    /\ \A u \in DOMAIN tracker[lastCall.name] :
         tracker[lastCall.name][u] > lastCall.time
    /\ \A n \in (DOMAIN lastCall.pre) \ {lastCall.name} :
         TrackerHas(tracker, n) /\ tracker[n] = lastCall.pre[n]

\* The call removed an expired entry of another user and left an expired
\* entry under another command name in place.
C29_Witness ==
  /\ CallMade
  /\ HasCooldown(lastCall.cd)
  /\ \E u \in Users \ {lastCall.user} :
       /\ Entry(lastCall.pre, lastCall.name, u) # Undefined
       /\ ValueOf(Entry(lastCall.pre, lastCall.name, u)) <= lastCall.time
       /\ Entry(tracker, lastCall.name, u) = Undefined
  /\ \E n \in Names \ {lastCall.name}, u \in Users :
       /\ Entry(tracker, n, u) # Undefined
       /\ ValueOf(Entry(tracker, n, u)) <= lastCall.time

----------------------------------------------------------------------------
(* Claims about the validation of a dispatch through a SubcommandGroup, *)
(* checked under SpecGroup                                              *)

\* The (name, user) pairs whose cooldown entry was written since pre.
Written(pre, tr) ==
  {e \in Names \X Users :
     /\ Entry(tr, e[1], e[2]) # Undefined
     /\ Entry(tr, e[1], e[2]) # Entry(pre, e[1], e[2])}

Dispatched(t) ==
  groupCall[t].pc # "idle" /\ groupCall[t].sel \in DOMAIN Subcommands

\* C30 as stated: a dispatch to a child of the group runs validate once,
\* evaluates checkCooldown exactly once and writes at most one cooldown entry.
C30_CheckedExactlyOnce ==
  \A t \in Tasks :
    Dispatched(t) =>
      /\ groupCall[t].validations = 1
      /\ groupCall[t].checks = 1
      /\ Cardinality(Written(groupCall[t].pre, tracker)) <= 1

\* C30, amended: a dispatch to a child of the group runs validate once, inside
\* the child's execute; checkCooldown is evaluated once when the guild-scope
\* check lets the invocation through and not at all when it rejects it; at most
\* one cooldown entry is written, and it is the one of (child name, user).
C30_CheckedAtMostOnce ==
  \A t \in Tasks :
    Dispatched(t) =>
      /\ groupCall[t].validations = 1
      /\ groupCall[t].checks = IF tasks[t].vmsg = GuildOnlyMessage THEN 0 ELSE 1
      /\ tasks[t].vmsg = GuildOnlyMessage => tracker = groupCall[t].pre
      /\ Written(groupCall[t].pre, tracker)
           \subseteq {<<CmdName[Subcommands[groupCall[t].sel]], tasks[t].user>>}

\* A dispatch that evaluated the cooldown once and wrote the user's entry next
\* to an entry of an earlier dispatch.
C30_Witness ==
  /\ groupCall["t1"].pc = "done"
  /\ groupCall["t1"].sel = "ban"
  /\ groupCall["t1"].validations = 1
  /\ groupCall["t1"].checks = 1
  /\ groupCall["t1"].pre # EmptyMap
  /\ Cardinality(Written(groupCall["t1"].pre, tracker)) = 1

----------------------------------------------------------------------------
(* Claims about the logging of a dispatch through a SubcommandGroup, *)
(* checked under SpecGroup                                           *)

\* The records of the given text among the logs of invocation t.
LoggedText(t, text) == {i \in DOMAIN tasks[t].logs : tasks[t].logs[i].text = text}

\* The delivered replies of invocation t that carry the given text.
DeliveredText(t, text) ==
  {i \in DOMAIN tasks[t].replies :
     /\ tasks[t].replies[i].text = text
     /\ tasks[t].replies[i].status \in {"sent", "unfetched"}}

\* C31: the group logs its informational record only when the child's handler
\* ran and completed without exception; when the child's handler threw, a
\* group with a logger has logged an error record by the time the dispatch
\* settles, and the invoker has received the generic failure reply exactly once.
C31_GroupWrapper ==
  \A t \in Tasks :
    /\ LoggedText(t, GroupInfoRecord(NoLogger).text) # {}
         => tasks[t].ran = 1 /\ ~tasks[t].threw
    /\ groupCall[t].pc = "done" /\ tasks[t].threw
         => /\ groupLogger # NoLogger
                 => LoggedText(t, GroupErrorRecord(NoLogger).text) # {}
            /\ Cardinality(DeliveredText(t, GenericFailure)) = 1

----------------------------------------------------------------------------
(* Claims about the manager's logger, checked under SpecManagerGroup *)

\* C32: once a logger is set on the CommandManager, every exception of a
\* handler that is caught during a dispatch through the manager produces an
\* error record on that logger, also when the handler belongs to a child of a
\* registered SubcommandGroup.
C32_ErrorOnManagerLogger ==
  [][\A t \in Tasks :
       (managerLogger # NoLogger /\ tasks[t].pc = "run" /\ tasks'[t].threw) =>
         \E i \in DOMAIN tasks'[t].logs :
           /\ i > Len(tasks[t].logs)
           /\ tasks'[t].logs[i].level = "error"
           /\ tasks'[t].logs[i].logger = managerLogger]_vars

----------------------------------------------------------------------------
(* Claims about the success record of Command.execute, checked under Spec *)

\* C33: Command.execute logs its informational record only for an invocation
\* whose handler was invoked and completed without exception; an invocation
\* that validation rejected has no informational record.
C33_SuccessRecordOnlyAfterRun ==
  \A t \in Tasks :
    LogsAt(tasks[t], "info") # {} =>
      /\ tasks[t].ran = 1
      /\ ~tasks[t].threw
      /\ ~ValidationFailed(tasks[t])

----------------------------------------------------------------------------
(* Claims about getHelpPages, checked under SpecHelp *)

\* C34: for every commandsPerPage >= 1 and every registry, getHelpPages
\* returns one page per group, its header followed by one line per child,
\* ahead of the pages of the other commands; each of those pages has at most
\* commandsPerPage lines and begins with the OTHER header followed by at least
\* one command line.
C34_HelpPages ==
  \A i \in CallsOf("getHelpPages") :
    LET names == utilCalls[i].arg.names
        perPage == utilCalls[i].arg.perPage
        pages == utilCalls[i].result
        groups == SelectSeq(GetAllSorted(names, 1), LAMBDA n : n \in DOMAIN HelpGroups)
    IN /\ Len(pages) >= Len(groups)
       /\ \A p \in 1..Len(groups) :
            /\ Len(pages[p]) = 1 + Len(HelpGroups[groups[p]])
            /\ pages[p][1] = HelpLine("header", groups[p])
            /\ \A j \in 2..Len(pages[p]) :
                 pages[p][j] = HelpLine("item", HelpGroups[groups[p]][j - 1])
       /\ \A p \in (Len(groups) + 1)..Len(pages) :
            /\ Len(pages[p]) <= perPage
            /\ Len(pages[p]) >= 2
            /\ pages[p][1] = OtherHeader
            /\ pages[p][2].mark = "item"

----------------------------------------------------------------------------
(* Claims about the moment the cooldown is reserved, checked under Spec *)

\* C35: the cooldown is reserved by the check, not by the handler's success:
\* an invocation that the cooldown check granted has its user's entry written,
\* also when additionalValidation rejected it or its handler threw; no step
\* removes or changes an entry before it expires; and an invocation that finds
\* an unexpired entry of its user under its command name is denied.
C35_ReservedAtValidation ==
  /\ [](\A t \in Tasks :
          Granted(tasks[t]) =>
            Entry(tracker, CmdName[tasks[t].cmd], tasks[t].user)
              = Some(tasks[t].at + ValueOf(CmdCooldown[tasks[t].cmd])))
  /\ [][\A n \in Names, u \in Users :
          (Entry(tracker, n, u) # Undefined /\ ValueOf(Entry(tracker, n, u)) > now')
            => Entry(tracker', n, u) = Entry(tracker, n, u)]_vars
  /\ [][\A t \in Tasks :
          (tasks[t].pc = "idle" /\ tasks'[t].pc # "idle") =>
            LET k == tasks'[t]
                e == Entry(tracker, CmdName[k.cmd], k.user)
            IN (e # Undefined /\ ValueOf(e) > now)
                 => /\ k.vmsg \in {GuildOnlyMessage, CooldownMessage}
                    /\ ~k.hook
                    /\ k.ran = 0]_vars

\* additionalValidation rejected an invocation that the cooldown check had
\* granted, time has passed, and the user's entry is still unexpired.
C35_Witness ==
  /\ Granted(tasks["t1"])
  /\ tasks["t1"].vmsg = CustomMessage
  /\ tasks["t1"].pc = "done"
  /\ now > tasks["t1"].at
  /\ now < tasks["t1"].at + ValueOf(CmdCooldown[tasks["t1"].cmd])

----------------------------------------------------------------------------
(* Claims about cooldowns and the registry, checked under SpecManager *)

\* C36: no change of the manager's registry changes the cooldown tracker, and
\* a user whom the cooldown check granted an invocation of a name stays
\* blocked, within the window, for every Command of that name, whatever has
\* been unregistered or registered under the name since.
C36_CooldownOutlivesRegistration ==
  /\ [][commands' # commands => tracker' = tracker]_vars
  /\ [](\A t \in Tasks :
          (Granted(tasks[t]) /\ now < tasks[t].at + ValueOf(CmdCooldown[tasks[t].cmd])) =>
            \A c \in Cmds :
              CmdName[c] = CmdName[tasks[t].cmd] =>
                Validate(c, tasks[t].user, TRUE, NoError, tracker, now).msg
                  = CooldownMessage)

\* The user was granted an invocation of the entry found under the name; the
\* name has since been unregistered and another Command of the same name has
\* been registered.
C36_Witness ==
  /\ Granted(tasks["t1"])
  /\ tasks["t1"].found = "c1"
  /\ "slow" \in DOMAIN commands
  /\ commands["slow"] = "c2"
  /\ Validate("c2", tasks["t1"].user, TRUE, NoError, tracker, now).msg = CooldownMessage

----------------------------------------------------------------------------
(* Claims about a throwing or suspended submit handler, checked under SpecModal *)

C38_RemovesOnlyItsOwn ==
  [][\A t \in Tasks :
       (submits[t].pc = "handler" /\ submits'[t].result = "resolved") =>
         \A id \in DOMAIN modals :
           modals[id] # submits[t].modal =>
             id \in DOMAIN modals' /\ modals'[id] = modals[id]]_vars

----------------------------------------------------------------------------
(* Claims about the custom-action handler of a session, checked under SpecPageLive *)

\* C39: in a session with a custom-action handler every owner click, `prev`
\* and `next` included, goes to the handler first and moves nothing by itself;
\* a click the handler reports as handled leaves the index alone unless it
\* comes with a replacement list, and then the index becomes
\* min(index, length - 1); the index of such a session changes only when the
\* handler of a click returns.
C39_HandlerFirst ==
  [][/\ \A t \in Tasks :
          (/\ page.handler
           /\ clicks[t].pc = "idle"
           /\ clicks'[t].pc # "idle"
           /\ clicks'[t].user = page.owner) =>
            /\ clicks'[t].pc = "custom"
            /\ page' = page
     /\ \A t \in Tasks, r \in HandlerResults :
          (CustomReturns(t, r) /\ r.handled) =>
            page'.index = IF r.newItems = Undefined
                          THEN page.index
                          ELSE MathMin(page.index, Len(ValueOf(r.newItems)) - 1)
     /\ (page.handler /\ page'.phase # "none" /\ page'.index # page.index) =>
          \E t \in Tasks : clicks[t].pc = "custom" /\ clicks'[t].pc # "custom"]_vars

\* The owner clicked `next` on the first of several items, the handler reported
\* handled without a replacement list, and the re-render shows the first item.
C39_Witness ==
  \E t \in Tasks :
    /\ page.handler
    /\ page.phase = "active"
    /\ clicks[t].pc = "update"
    /\ clicks[t].action = "next"
    /\ clicks[t].from = Undefined
    /\ page.index = 0
    /\ Len(page.items) = 3

====
